---- MODULE Spec2Model ----
(***************************************************************************)
(* Model of the pipeline execution core of backend/app/operators:          *)
(* PipelineEngine.run (engine.py), its level computation, its SourceLog    *)
(* helpers and the smart-skip checks, together with the operator registry  *)
(* (registry.py) and the LLM call record written by LLMCallLog.save_to_db  *)
(* (core/llm_monitor.py).                                                  *)
(*                                                                         *)
(* The SourceLog table is modelled by its rows for one source id, with the *)
(* columns the engine reads and writes: event_type, status, lens_key,      *)
(* step_key.                                                               *)
(***************************************************************************)
EXTENDS Integers, Sequences, FiniteSets, TLC

\* ------------------------------------------------------------------------
\* Bounds
\* ------------------------------------------------------------------------

\* Number of engine runs (first run plus retries) for the one source id.
MaxRuns == 2

\* Number of operator ids of the graphs the level computation is checked on.
MaxOps == 3

\* Number of distinct (source_op, target_op) pairs of those graphs.
MaxEdges == 4

\* ------------------------------------------------------------------------
\* Sentinels
\* ------------------------------------------------------------------------

None == "None"

INPUT == "__input__"

SKIPPED == "_SKIPPED"

EmptyMap == << >>

\* ------------------------------------------------------------------------
\* Pipeline data model (engine.py, OpRef / Step / Edge / Pipeline)
\* ------------------------------------------------------------------------

\* an OpRef with the default config_overrides ({})
OpRef(id, operator_key) ==
    [id |-> id, operator_key |-> operator_key, config_overrides |-> EmptyMap]

OpRefWith(id, operator_key, config_overrides) ==
    [id |-> id, operator_key |-> operator_key, config_overrides |-> config_overrides]

Step(key, operators) == [key |-> key, operators |-> operators]

Edge(source_op, source_port, target_op, target_port) ==
    [source_op |-> source_op, source_port |-> source_port,
     target_op |-> target_op, target_port |-> target_port]

Pipeline(name, steps, edges) == [name |-> name, steps |-> steps, edges |-> edges]

\* ------------------------------------------------------------------------
\* Operator registry (registry.py) and the operators' kind and output ports
\* ------------------------------------------------------------------------

\* key -> kind of the registered operator class
REGISTRY ==
    [k \in {"pdf_fetch", "summary", "reading_notes", "study_quiz",
            "save_summary", "save_cards"} |->
        IF k \in {"summary", "reading_notes", "study_quiz"} THEN "llm" ELSE "tool"]

\* the port an operator's execute fills on success
OutputPort(operator_key) ==
    CASE operator_key = "pdf_fetch" -> "text"
      [] operator_key = "summary" -> "summary"
      [] operator_key = "reading_notes" -> "notes"
      [] operator_key = "study_quiz" -> "flashcards"
      [] OTHER -> "done"

\* ------------------------------------------------------------------------
\* Pipelines the engine is run on
\* ------------------------------------------------------------------------

\* fetch -> {summary, notes}: three Steps of one operator each
PFork ==
    Pipeline("fork",
        << Step("fetch", << OpRef("fetch", "pdf_fetch") >>),
           Step("summarize", << OpRef("summary", "summary") >>),
           Step("reading_notes", << OpRef("notes", "reading_notes") >>) >>,
        << Edge(INPUT, "url", "fetch", "url"),
           Edge("fetch", "text", "summary", "text"),
           Edge("fetch", "text", "notes", "text") >>)

\* fetch -> summary -> save_summary, the last two in one Step; two edges
\* between the same pair of operators
PChain ==
    Pipeline("chain",
        << Step("fetch", << OpRef("fetch", "pdf_fetch") >>),
           Step("summarize", << OpRef("summary", "summary"),
                                OpRef("save_summary", "save_summary") >>) >>,
        << Edge(INPUT, "url", "fetch", "url"),
           Edge("fetch", "text", "summary", "text"),
           Edge("summary", "summary", "save_summary", "summary"),
           Edge("summary", "summary", "save_summary", "title") >>)

\* one Step whose two operators both depend on fetch and share a level
PPair ==
    Pipeline("pair",
        << Step("fetch", << OpRef("fetch", "pdf_fetch") >>),
           Step("study", << OpRef("reading_notes", "reading_notes"),
                            OpRef("study_quiz", "study_quiz") >>) >>,
        << Edge("fetch", "text", "reading_notes", "text"),
           Edge("fetch", "text", "study_quiz", "text") >>)

\* one Step whose operator listed last has no dependency and runs in level 0,
\* while the operator listed first depends on fetch and sits in level 1
PSplit ==
    Pipeline("split",
        << Step("fetch", << OpRef("fetch", "pdf_fetch") >>),
           Step("flashcards", << OpRef("study_quiz", "study_quiz"),
                                 OpRef("save_flashcards", "save_cards") >>) >>,
        << Edge("fetch", "text", "study_quiz", "text") >>)

\* A -> B -> A
PCycle ==
    Pipeline("cycle",
        << Step("s1", << OpRef("summary", "summary") >>),
           Step("s2", << OpRef("notes", "reading_notes") >>) >>,
        << Edge("summary", "summary", "notes", "text"),
           Edge("notes", "notes", "summary", "text") >>)

\* A -> A
PSelf ==
    Pipeline("self",
        << Step("s1", << OpRef("summary", "summary") >> ) >>,
        << Edge("summary", "summary", "summary", "text") >>)

\* fetch -> A -> B -> A: a cycle behind an operator that could run
PTail ==
    Pipeline("tail",
        << Step("fetch", << OpRef("fetch", "pdf_fetch") >>),
           Step("s1", << OpRef("summary", "summary") >>),
           Step("s2", << OpRef("notes", "reading_notes") >>) >>,
        << Edge("fetch", "text", "summary", "text"),
           Edge("summary", "summary", "notes", "text"),
           Edge("notes", "notes", "summary", "text") >>)

\* the split Step beside an operator that has config_overrides, one of them
\* for the port its edge from fetch feeds
PExport ==
    Pipeline("export",
        << Step("fetch", << OpRef("fetch", "pdf_fetch") >>),
           Step("flashcards", << OpRef("study_quiz", "study_quiz"),
                                 OpRef("save_flashcards", "save_cards") >>),
           Step("export", << OpRefWith("export", "save_summary",
                                [text |-> "configured", card_type |-> "flashcard"]) >>) >>,
        << Edge(INPUT, "url", "fetch", "url"),
           Edge("fetch", "text", "study_quiz", "text"),
           Edge("fetch", "text", "export", "text") >>)

\* fetch -> translate, where no operator is registered under "translate"
PUnknown ==
    Pipeline("unknown",
        << Step("fetch", << OpRef("fetch", "pdf_fetch") >>),
           Step("translate", << OpRef("translate", "translate") >>) >>,
        << Edge(INPUT, "url", "fetch", "url"),
           Edge("fetch", "text", "translate", "text") >>)

\* two OpRefs of one Step share the id "fetch", which no edge from another
\* operator enters; the edges form no cycle
PDupStep ==
    Pipeline("dup_step",
        << Step("fetch", << OpRef("fetch", "pdf_fetch"),
                            OpRef("fetch", "pdf_fetch") >>),
           Step("summarize", << OpRef("summary", "summary") >>) >>,
        << Edge(INPUT, "url", "fetch", "url"),
           Edge("fetch", "text", "summary", "text") >>)

\* two OpRefs of different Steps share the id "notes"; the edges form no cycle
PDupAcross ==
    Pipeline("dup_across",
        << Step("fetch", << OpRef("fetch", "pdf_fetch") >>),
           Step("s1", << OpRef("notes", "reading_notes") >>),
           Step("s2", << OpRef("notes", "reading_notes") >>) >>,
        << Edge(INPUT, "url", "fetch", "url"),
           Edge("fetch", "text", "notes", "text") >>)

Pipelines ==
    {PFork, PChain, PPair, PSplit, PCycle, PSelf, PTail, PExport, PUnknown,
     PDupStep, PDupAcross}

\* ------------------------------------------------------------------------
\* Helpers on sequences and maps
\* ------------------------------------------------------------------------

Range(s) == {s[i] : i \in 1..Len(s)}

RECURSIVE Flatten(_)
Flatten(ss) == IF ss = << >> THEN << >> ELSE Head(ss) \o Flatten(Tail(ss))

HasKey(m, k) == k \in DOMAIN m

\* dict.get(k, {})
GetOrEmpty(m, k) == IF k \in DOMAIN m THEN m[k] ELSE EmptyMap

\* m[k] = v  (dict item assignment)
Put(m, k, v) == [x \in (DOMAIN m) \cup {k} |-> IF x = k THEN v ELSE m[x]]

\* ------------------------------------------------------------------------
\* _build_op_map
\* ------------------------------------------------------------------------

\* the op ids of the pipeline in Step order, then list order
AllOpIds(p) ==
    Flatten([i \in 1..Len(p.steps) |->
        [j \in 1..Len(p.steps[i].operators) |-> p.steps[i].operators[j].id]])

OpIds(p) == Range(AllOpIds(p))

\* op_map[op_id]: the OpRef with that id (the last one, were ids repeated)
OpMap(p, op_id) ==
    LET refs == Flatten([i \in 1..Len(p.steps) |-> p.steps[i].operators])
        last == CHOOSE i \in 1..Len(refs) :
                    /\ refs[i].id = op_id
                    /\ \A j \in (i + 1)..Len(refs) : refs[j].id # op_id
    IN refs[last]

\* op_to_step[op_id]
OpToStep(p, op_id) ==
    LET idx == CHOOSE i \in 1..Len(p.steps) :
                    /\ \E j \in 1..Len(p.steps[i].operators) :
                            p.steps[i].operators[j].id = op_id
                    /\ \A i2 \in (i + 1)..Len(p.steps) :
                            \A j \in 1..Len(p.steps[i2].operators) :
                                p.steps[i2].operators[j].id # op_id
    IN p.steps[idx].key

\* step_map[step_key]
StepMap(p, step_key) ==
    LET idx == CHOOSE i \in 1..Len(p.steps) :
                    /\ p.steps[i].key = step_key
                    /\ \A i2 \in (i + 1)..Len(p.steps) : p.steps[i2].key # step_key
    IN p.steps[idx]

StepKeys(p) == {p.steps[i].key : i \in 1..Len(p.steps)}

StepOpIds(p, step_key) ==
    LET s == StepMap(p, step_key) IN {s.operators[j].id : j \in 1..Len(s.operators)}

\* step.operators[-1].id
LastOpId(p, step_key) ==
    LET s == StepMap(p, step_key) IN s.operators[Len(s.operators)].id

\* ------------------------------------------------------------------------
\* _topological_levels (Kahn's algorithm grouped into levels)
\* ------------------------------------------------------------------------

\* "if pair not in pair_seen" (line 296), negated
PairSeenNever(pair, pair_seen) == FALSE

PairSeen(pair, pair_seen) == pair \in pair_seen

\* the "Build adjacency + in-degree" loop over pipeline.edges, from edge i on;
\* g = [pair_seen, in_degree, dependents, err]
RECURSIVE BuildGraph(_, _, _)
BuildGraph(edges, i, g) ==
    IF i > Len(edges) \/ g.err # None THEN g
    ELSE LET e == edges[i]
             pair == << e.source_op, e.target_op >>
         IN IF e.source_op = INPUT THEN BuildGraph(edges, i + 1, g)
            ELSE IF PairSeen(pair, g.pair_seen) THEN BuildGraph(edges, i + 1, g)
            ELSE IF e.target_op \notin DOMAIN g.in_degree
                    \/ e.source_op \notin DOMAIN g.dependents
                 THEN [g EXCEPT !.err = "KeyError"]
            ELSE BuildGraph(edges, i + 1,
                    [g EXCEPT !.pair_seen = @ \cup {pair},
                              !.in_degree[e.target_op] = @ + 1,
                              !.dependents[e.source_op] = @ \cup {e.target_op}])

InitialGraph(p) ==
    [pair_seen |-> {},
     in_degree |-> [oid \in OpIds(p) |-> 0],
     dependents |-> [oid \in OpIds(p) |-> {}],
     err |-> None]

\* queue = [oid for oid, deg in in_degree.items() if deg == 0]: the dict keeps
\* the order in which the ids were first inserted
RECURSIVE ZeroDegree(_, _, _)
ZeroDegree(ids, seen, in_degree) ==
    IF ids = << >> THEN << >>
    ELSE LET oid == Head(ids)
         IN IF oid \in seen THEN ZeroDegree(Tail(ids), seen, in_degree)
            ELSE (IF in_degree[oid] = 0 THEN << oid >> ELSE << >>)
                 \o ZeroDegree(Tail(ids), seen \cup {oid}, in_degree)

\* "if in_degree[dep] == 0: next_queue.append(dep)"
EnqueueReadyEarly(in_degree, dep) == in_degree[dep] \in {0, 1}

EnqueueReady(in_degree, dep) == in_degree[dep] = 0

\* "for dep in dependents[oid]": a Python set of str is iterated in an order
\* that depends on the process's hash seed, so every order is possible.
\* Returns the set of << in_degree, next_queue >> outcomes.
RECURSIVE ProcessDeps(_, _, _)
ProcessDeps(deps, in_degree, next_queue) ==
    IF deps = {} THEN { << in_degree, next_queue >> }
    ELSE UNION { LET deg == [in_degree EXCEPT ![dep] = @ - 1]
                     nq == IF EnqueueReady(deg, dep)
                           THEN Append(next_queue, dep) ELSE next_queue
                 IN ProcessDeps(deps \ {dep}, deg, nq) : dep \in deps }

\* "for oid in queue", from position i on
RECURSIVE ProcessQueue(_, _, _, _, _)
ProcessQueue(queue, i, dependents, in_degree, next_queue) ==
    IF i > Len(queue) THEN { << in_degree, next_queue >> }
    ELSE UNION { ProcessQueue(queue, i + 1, dependents, r[1], r[2]) :
                    r \in ProcessDeps(dependents[queue[i]], in_degree, next_queue) }

\* "while queue": the set of level lists the loop can produce
RECURSIVE KahnLoop(_, _, _, _)
KahnLoop(queue, dependents, in_degree, levels) ==
    IF queue = << >> THEN { levels }
    ELSE UNION { KahnLoop(r[2], dependents, r[1], Append(levels, queue)) :
                    r \in ProcessQueue(queue, 1, dependents, in_degree, << >>) }

RECURSIVE SumLen(_)
SumLen(levels) == IF levels = << >> THEN 0 ELSE Len(Head(levels)) + SumLen(Tail(levels))

\* "if executed != len(all_op_ids): raise ValueError"
CycleDetectedNever(levels, all_op_ids) == FALSE

CycleDetectedAmongDistinct(levels, all_op_ids) ==
    SumLen(levels) # Cardinality(Range(all_op_ids))

CycleDetected(levels, all_op_ids) == SumLen(levels) # Len(all_op_ids)

\* in_degree as it stands when the loop over the edges has ended
InDegree(p) == BuildGraph(p.edges, 1, InitialGraph(p)).in_degree

\* every result _topological_levels can produce for the pipeline:
\* [err |-> None, levels |-> ...] or [err |-> "ValueError" / "KeyError"]
TopologicalLevels(p) ==
    LET g == BuildGraph(p.edges, 1, InitialGraph(p))
    IN IF g.err # None THEN { [err |-> g.err, levels |-> << >>] }
       ELSE { IF CycleDetected(lv, AllOpIds(p))
              THEN [err |-> "ValueError", levels |-> << >>]
              ELSE [err |-> None, levels |-> lv] :
                lv \in KahnLoop(ZeroDegree(AllOpIds(p), {}, g.in_degree),
                                g.dependents, g.in_degree, << >>) }

\* ------------------------------------------------------------------------
\* _get_upstream_ops and _gather_inputs
\* ------------------------------------------------------------------------

GetUpstreamOpsNone(op_id, edges) == {}

GetUpstreamOps(op_id, edges) ==
    { edges[i].source_op : i \in { j \in 1..Len(edges) :
            edges[j].target_op = op_id /\ edges[j].source_op # INPUT } }

\* "inputs[edge.target_port] = source_data[edge.source_port]" (line 339)
BindKeepsFirst(inputs, target_port, value) ==
    IF HasKey(inputs, target_port) THEN inputs ELSE Put(inputs, target_port, value)

Bind(inputs, target_port, value) == Put(inputs, target_port, value)

\* the loop over edges, from edge i on, filling inputs
RECURSIVE GatherLoop(_, _, _, _, _)
GatherLoop(op_id, edges, op_outputs, i, inputs) ==
    IF i > Len(edges) THEN inputs
    ELSE LET e == edges[i]
             source_data == GetOrEmpty(op_outputs, e.source_op)
         IN IF e.target_op # op_id THEN GatherLoop(op_id, edges, op_outputs, i + 1, inputs)
            ELSE IF HasKey(source_data, e.source_port)
                 THEN GatherLoop(op_id, edges, op_outputs, i + 1,
                                 Bind(inputs, e.target_port, source_data[e.source_port]))
                 ELSE GatherLoop(op_id, edges, op_outputs, i + 1, inputs)

GatherInputs(op_id, edges, op_outputs) == GatherLoop(op_id, edges, op_outputs, 1, EmptyMap)

\* "merged_inputs = {**op_ref.config_overrides, **inputs}" (line 376)
MergedInputsConfigWins(op_ref, inputs) ==
    [k \in (DOMAIN op_ref.config_overrides) \cup (DOMAIN inputs) |->
        IF k \in DOMAIN op_ref.config_overrides
        THEN op_ref.config_overrides[k] ELSE inputs[k]]

MergedInputs(op_ref, inputs) ==
    [k \in (DOMAIN op_ref.config_overrides) \cup (DOMAIN inputs) |->
        IF k \in DOMAIN inputs THEN inputs[k] ELSE op_ref.config_overrides[k]]

\* ------------------------------------------------------------------------
\* SourceLog helpers
\*
\* The engine reads created_at only in "order_by(created_at.desc())" over rows
\* whose status is "running"; a row whose status has left "running" is never
\* updated again and is only ever tested for existence.  The table is
\* therefore kept as the sequence of its running rows, oldest first, and the
\* set of its distinct other rows.
\* ------------------------------------------------------------------------

SourceLog(event_type, status, lens_key, step_key) ==
    [event_type |-> event_type, status |-> status,
     lens_key |-> lens_key, step_key |-> step_key]

EmptyLog == [running |-> << >>, closed |-> {}]

\* all rows of the table
Rows(rows) == Range(rows.running) \cup rows.closed

\* session.add(row); commit
Insert(rows, row) ==
    IF row.status = "running"
    THEN [rows EXCEPT !.running = Append(@, row)]
    ELSE [rows EXCEPT !.closed = @ \cup {row}]

\* the sequence without its i-th element
RemoveAt(seq, i) == [j \in 1..(Len(seq) - 1) |-> IF j < i THEN seq[j] ELSE seq[j + 1]]

\* log.status = status; log.event_type = event_type; commit, for the i-th
\* running row
UpdateRunning(rows, i, event_type, status) ==
    LET row == [rows.running[i] EXCEPT !.status = status, !.event_type = event_type]
    IN IF status = "running"
       THEN [rows EXCEPT !.running[i] = row]
       ELSE [running |-> RemoveAt(rows.running, i),
             closed |-> rows.closed \cup {row}]

\* _is_operator_completed: a row with this lens_key and status completed
IsOperatorCompletedNever(rows, op_id) == FALSE

IsOperatorCompleted(rows, op_id) ==
    \E row \in Rows(rows) : row.lens_key = op_id /\ row.status = "completed"

\* _is_step_completed: a step_completed / completed row with this step_key
IsStepCompletedNever(rows, step_key) == FALSE

IsStepCompletedUnlessFailed(rows, step_key) ==
    /\ \E row \in Rows(rows) :
            /\ row.step_key = step_key
            /\ row.event_type = "step_completed"
            /\ row.status = "completed"
    /\ ~ \E row \in Rows(rows) :
            /\ row.step_key = step_key
            /\ row.event_type = "step_failed"

IsStepCompleted(rows, step_key) ==
    \E row \in Rows(rows) :
        /\ row.step_key = step_key
        /\ row.event_type = "step_completed"
        /\ row.status = "completed"

\* _log_event: insert a row
LogEvent(rows, event_type, status, lens_key, step_key) ==
    Insert(rows, SourceLog(event_type, status, lens_key, step_key))

\* "where(<column> == key, status == 'running').order_by(created_at.desc())
\* .limit(1)": index of the row among the running rows, 0 when there is none
LatestRunning(rows, column, key) ==
    LET hits == { i \in 1..Len(rows.running) : rows.running[i][column] = key }
    IN IF hits = {} THEN 0 ELSE CHOOSE i \in hits : \A j \in hits : j <= i

\* _log_step_event: update the latest running row of the Step, or insert
LogStepEvent(rows, step_key, event_type, status) ==
    LET i == LatestRunning(rows, "step_key", step_key)
    IN IF i # 0
       THEN UpdateRunning(rows, i, event_type, status)
       ELSE Insert(rows, SourceLog(event_type, status, None, step_key))

\* "operator_" + status
OperatorEvent(status) == IF status = "completed" THEN "operator_completed" ELSE "operator_failed"

\* _update_lens_log: update the latest running row of the operator, or insert
UpdateLensLog(rows, lens_key, status) ==
    LET i == LatestRunning(rows, "lens_key", lens_key)
    IN IF i # 0
       THEN UpdateRunning(rows, i, OperatorEvent(status), status)
       ELSE Insert(rows, SourceLog(OperatorEvent(status), status, lens_key, None))

\* LLMCallLog.save_to_db: the row an LLM operator adds to its session
LLMCallRow(operator_key, error) ==
    SourceLog("llm_call", IF error THEN "failed" ELSE "completed", operator_key, None)

\* ------------------------------------------------------------------------
\* What the table holds, for the statement of the properties
\* ------------------------------------------------------------------------

\* the table holds a completed row for the op id
HasCompletedRow(rows, op_id) ==
    \E row \in Rows(rows) : row.lens_key = op_id /\ row.status = "completed"

\* the table holds a step-completed row for the Step
HasStepCompletedRow(rows, step_key) ==
    \E row \in Rows(rows) :
        row.step_key = step_key /\ row.event_type = "step_completed"
                                /\ row.status = "completed"

\* no call of _log_step_event or _is_step_completed yet
NoStepEvents(p) ==
    [k \in StepKeys(p) |-> [step_started |-> 0, step_completed |-> 0, step_failed |-> 0,
                            is_step_completed |-> 0]]

\* one more call of _log_step_event for the Step with that event type, or of
\* _is_step_completed for the Step
CountStepEvent(events, step_key, event_type) ==
    [events EXCEPT ![step_key][event_type] = @ + 1]

\* ------------------------------------------------------------------------
\* State
\* ------------------------------------------------------------------------

VARIABLES
    pipeline,       \* the Pipeline passed to run
    log,            \* the SourceLog rows of the source id
    run,            \* number of calls of run so far
    pc,             \* position of the current call of run
    levels,         \* result of _topological_levels
    level_idx,      \* index into levels of the level being processed
    pos,            \* index into the level of the next op id to launch
    cls,            \* index into op_ids_in_level of the next result to classify
    tasks,          \* op id -> the coroutine created for it in this run
    op_outputs,     \* op id -> output map
    failed_ops,
    step_started,
    step_completed,
    step_failed,
    invoked,        \* op id -> number of calls of execute in this run
    raised,         \* op ids whose execute raised in this run
    returned,       \* op ids whose execute has returned, in this run or an earlier one
    accounted,      \* op ids whose result the classification loop has handled
    ops_at_start,   \* op ids with a completed row in the log when this run began
    steps_at_start, \* Step keys with a step-completed row in the log then
    prev_clean,     \* the previous run returned with an empty failed set
    step_events     \* Step key -> calls of _log_step_event by event type, and of
                    \* _is_step_completed, in this run

\* one call of an operator's execute, taken on its own
VARIABLES
    operator,       \* the operator instance: its kind and its input_ports
    exec_inputs,    \* the inputs map execute is called with
    exec_pc,        \* position of the call
    exec_error,     \* the port named by the error validate_inputs raised
    exec_called     \* what execute has called after validate_inputs

\* the operator registry, taken on its own
VARIABLES
    registry,       \* _REGISTRY: key -> class
    registered,     \* the classes passed to register_operator so far, in order
    instances,      \* number of operator instances created so far
    lookup          \* the last call of get_operator and its result

\* the background tasks and their semaphore
VARIABLES
    semaphore,      \* _concurrency_limit: its value and its queue of waiters
    bg              \* task -> position in process_paper_background

\* one process_paper_background task and the source it processes
VARIABLES
    source,         \* the row of the source id in sources as committed, or None
    source_logs,    \* the SourceLog rows paper_tasks.py has committed
    paper_pc,       \* position in process_paper_background
    paper_exc,      \* the exception _run_pipeline has raised, or None
    run_value       \* what engine.run returned to _run_pipeline, or None

engine_vars ==
    << pipeline, log, run, pc, levels, level_idx, pos, cls, tasks, op_outputs,
       failed_ops, step_started, step_completed, step_failed, invoked, raised,
       returned, accounted, ops_at_start, steps_at_start, prev_clean, step_events >>

execute_vars == << operator, exec_inputs, exec_pc, exec_error, exec_called >>

registry_vars == << registry, registered, instances, lookup >>

background_vars == << semaphore, bg >>

paper_vars == << source, source_logs, paper_pc, paper_exc, run_value >>

\* what a run of the engine leaves alone
outside_engine == << execute_vars, registry_vars, background_vars, paper_vars >>

vars == << engine_vars, execute_vars, registry_vars, background_vars, paper_vars >>

\* no call of execute is being looked at
ExecuteIdle ==
    /\ operator = None
    /\ exec_inputs = EmptyMap
    /\ exec_pc = "idle"
    /\ exec_error = None
    /\ exec_called = {}

\* the registry is not being looked at
RegistryIdle ==
    /\ registry = EmptyMap
    /\ registered = << >>
    /\ instances = 0
    /\ lookup = None

\* no background task exists
BackgroundIdle ==
    /\ semaphore = None
    /\ bg = EmptyMap

\* no process_paper_background task is being looked at
PaperIdle ==
    /\ source = None
    /\ source_logs = << >>
    /\ paper_pc = "idle"
    /\ paper_exc = None
    /\ run_value = None

\* the state of run's locals before the first statement of run
ResetLocals ==
    /\ levels' = << >>
    /\ level_idx' = 1
    /\ pos' = 1
    /\ cls' = 1
    /\ tasks' = EmptyMap
    /\ op_outputs' = EmptyMap
    /\ failed_ops' = {}
    /\ step_started' = {}
    /\ step_completed' = {}
    /\ step_failed' = {}
    /\ invoked' = [o \in OpIds(pipeline) |-> 0]
    /\ raised' = {}
    /\ accounted' = {}
    /\ step_events' = NoStepEvents(pipeline)

Init ==
    /\ pipeline \in Pipelines
    /\ log = EmptyLog
    /\ run = 0
    /\ pc = "idle"
    /\ levels = << >>
    /\ level_idx = 1
    /\ pos = 1
    /\ cls = 1
    /\ tasks = EmptyMap
    /\ op_outputs = EmptyMap
    /\ failed_ops = {}
    /\ step_started = {}
    /\ step_completed = {}
    /\ step_failed = {}
    /\ invoked = [o \in OpIds(pipeline) |-> 0]
    /\ raised = {}
    /\ returned = {}
    /\ accounted = {}
    /\ ops_at_start = {}
    /\ steps_at_start = {}
    /\ prev_clean = FALSE
    /\ step_events = NoStepEvents(pipeline)
    /\ ExecuteIdle
    /\ RegistryIdle
    /\ BackgroundIdle
    /\ PaperIdle

\* ------------------------------------------------------------------------
\* run: lookup tables, levels, locals (lines 108-120)
\* ------------------------------------------------------------------------

InitialInputs == [k \in {"url"} |-> "url"]

\* a RunContext (base.py lines 28-38) with the fields the engine touches; a
\* session handle is a number, 0 standing for no session
RunContext(db, source_id) == [db |-> db, source_id |-> source_id]

NoContext == RunContext(0, None)

\* the context _run_pipeline builds around the session that
\* process_paper_background opened (paper_tasks.py lines 32 and 123-128)
CallerContext == RunContext(1, "source")

\* async_session_maker(): a session that is none of the sessions open now
NewSession(open) ==
    CHOOSE n \in 1..(Cardinality(open) + 1) :
        n \notin open /\ \A m \in 1..(n - 1) : m \in open

\* "local_context = context.model_copy(); local_context.db = op_session"
\* (lines 370-371): the copy is a new object, the caller's context keeps its db
LocalContextShared(context, op_session) == context

LocalContext(context, op_session) == [context EXCEPT !.db = op_session]

RunBegin ==
    /\ pc \in {"idle", "done", "raised"}
    /\ run < MaxRuns
    /\ run' = run + 1
    /\ ops_at_start' = {o \in OpIds(pipeline) : HasCompletedRow(log, o)}
    /\ steps_at_start' = {k \in StepKeys(pipeline) : HasStepCompletedRow(log, k)}
    /\ prev_clean' = (pc = "done" /\ failed_ops = {})
    /\ \E r \in TopologicalLevels(pipeline) :
        IF r.err # None
        THEN /\ ResetLocals
             /\ pc' = "raised"
        ELSE /\ levels' = r.levels
             /\ level_idx' = 1
             /\ pos' = 1
             /\ cls' = 1
             /\ tasks' = EmptyMap
             /\ op_outputs' = [k \in {INPUT} |-> InitialInputs]
             /\ failed_ops' = {}
             /\ step_started' = {}
             /\ step_completed' = {}
             /\ step_failed' = {}
             /\ invoked' = [o \in OpIds(pipeline) |-> 0]
             /\ raised' = {}
             /\ accounted' = {}
             /\ step_events' = NoStepEvents(pipeline)
             /\ pc' = IF r.levels = << >> THEN "done" ELSE "launch"
    /\ UNCHANGED << pipeline, log, returned >>
    /\ UNCHANGED outside_engine

\* ------------------------------------------------------------------------
\* run: the loop "for op_id in level_op_ids" (lines 131-197)
\* ------------------------------------------------------------------------

level_op_ids == levels[level_idx]

\* merged_inputs holds what execute was called with, once it has been called;
\* local_context is the coroutine's local_context while it is inside its
\* "async with" block
Task(kind, tpc, inputs, result) ==
    [kind |-> kind, pc |-> tpc, inputs |-> inputs, merged_inputs |-> EmptyMap,
     local_context |-> NoContext, result |-> result, opskip |-> FALSE]

Result(kind, value) == [kind |-> kind, value |-> value]

NoResult == Result("none", EmptyMap)

\* "if step_key not in step_started" (line 185): the first operator of the
\* Step that is to run
FirstOfStepAlways(step_key, started) == TRUE

FirstOfStep(step_key, started) == step_key \notin started

\* "if step_key not in step_failed" (lines 144 and 222): the Step fails now
FirstStepFailureAlways(step_key, failed) == TRUE

FirstStepFailure(step_key, failed) == step_key \notin failed

\* "isinstance(result, BaseException)" (line 207)
IsExceptionNever(result) == FALSE

IsException(result) == result.kind = "exception"

\* "op_outputs[op_id] = result" (line 231)
StoreOutputEmpty(outputs, op_id, result) == Put(outputs, op_id, EmptyMap)

StoreOutput(outputs, op_id, result) == Put(outputs, op_id, result)

\* "if op_id == step.operators[-1].id and step_key not in step_failed"
\* (line 235)
StepCompletesDespiteFailure(p, op_id, step_key, failed) ==
    op_id = LastOpId(p, step_key)

StepCompletesAnyOperator(p, op_id, step_key, failed) == step_key \notin failed

StepCompletes(p, op_id, step_key, failed) ==
    op_id = LastOpId(p, step_key) /\ step_key \notin failed

\* tasks.append(_skip()); op_ids_in_level.append(op_id); continue
AppendSkip(op_id) ==
    /\ tasks' = Put(tasks, op_id, Task("skip", "done", EmptyMap, Result(SKIPPED, EmptyMap)))
    /\ pos' = pos + 1
    /\ pc' = IF pos = Len(level_op_ids) THEN "gather" ELSE "launch"

\* "if upstream_ids & failed_ops" (lines 135-156)
LaunchUpstreamFailed ==
    /\ pc = "launch"
    /\ LET op_id == level_op_ids[pos]
           step_key == OpToStep(pipeline, op_id)
       IN /\ GetUpstreamOps(op_id, pipeline.edges) \cap failed_ops # {}
          /\ failed_ops' = failed_ops \cup {op_id}
          /\ IF FirstStepFailure(step_key, step_failed)
             THEN /\ step_failed' = step_failed \cup {step_key}
                  /\ log' = LogStepEvent(log, step_key, "step_failed", "failed")
                  /\ step_events' = CountStepEvent(step_events, step_key, "step_failed")
             ELSE UNCHANGED << step_failed, log, step_events >>
          /\ AppendSkip(op_id)
    /\ UNCHANGED << pipeline, run, levels, level_idx, cls, op_outputs, step_started,
                    step_completed, invoked, raised, returned,
                    accounted, ops_at_start, steps_at_start, prev_clean >>
    /\ UNCHANGED outside_engine

\* "if step_key not in step_started and await self._is_step_completed(...)"
\* (lines 158-174)
LaunchStepCompleted ==
    /\ pc = "launch"
    /\ LET op_id == level_op_ids[pos]
           step_key == OpToStep(pipeline, op_id)
       IN /\ GetUpstreamOps(op_id, pipeline.edges) \cap failed_ops = {}
          /\ step_key \notin step_started
          /\ IsStepCompleted(log, step_key)
          /\ step_completed' = step_completed \cup {step_key}
          /\ step_started' = step_started \cup {step_key}
          /\ op_outputs' = [k \in (DOMAIN op_outputs) \cup StepOpIds(pipeline, step_key) |->
                                IF k \in StepOpIds(pipeline, step_key)
                                THEN EmptyMap ELSE op_outputs[k]]
          /\ step_events' = CountStepEvent(step_events, step_key, "is_step_completed")
          /\ AppendSkip(op_id)
    /\ UNCHANGED << pipeline, log, run, levels, level_idx, cls, failed_ops, step_failed,
                    invoked, raised, returned, accounted, ops_at_start,
                    steps_at_start, prev_clean >>
    /\ UNCHANGED outside_engine

\* "if step_key in step_completed" (lines 176-182)
LaunchStepMarked ==
    /\ pc = "launch"
    /\ LET op_id == level_op_ids[pos]
           step_key == OpToStep(pipeline, op_id)
       IN /\ GetUpstreamOps(op_id, pipeline.edges) \cap failed_ops = {}
          /\ ~ (step_key \notin step_started /\ IsStepCompleted(log, step_key))
          /\ step_key \in step_completed
          /\ step_events' = IF step_key \notin step_started
                            THEN CountStepEvent(step_events, step_key, "is_step_completed")
                            ELSE step_events
          /\ AppendSkip(op_id)
    /\ UNCHANGED << pipeline, log, run, levels, level_idx, cls, op_outputs, failed_ops,
                    step_started, step_completed, step_failed, invoked, raised,
                    returned, accounted, ops_at_start, steps_at_start, prev_clean >>
    /\ UNCHANGED outside_engine

\* Step started, inputs gathered, tasks.append(self._run_op(...)) (lines 184-197)
LaunchRunOp ==
    /\ pc = "launch"
    /\ LET op_id == level_op_ids[pos]
           step_key == OpToStep(pipeline, op_id)
       IN /\ GetUpstreamOps(op_id, pipeline.edges) \cap failed_ops = {}
          /\ ~ (step_key \notin step_started /\ IsStepCompleted(log, step_key))
          /\ step_key \notin step_completed
          /\ LET checked == IF step_key \notin step_started
                            THEN CountStepEvent(step_events, step_key, "is_step_completed")
                            ELSE step_events
             IN IF FirstOfStep(step_key, step_started)
                THEN /\ step_started' = step_started \cup {step_key}
                     /\ log' = LogStepEvent(log, step_key, "step_started", "running")
                     /\ step_events' = CountStepEvent(checked, step_key, "step_started")
                ELSE /\ step_events' = checked
                     /\ UNCHANGED << step_started, log >>
          /\ tasks' = Put(tasks, op_id,
                          Task("run", "pending",
                               GatherInputs(op_id, pipeline.edges, op_outputs), NoResult))
          /\ pos' = pos + 1
          /\ pc' = IF pos = Len(level_op_ids) THEN "gather" ELSE "launch"
    /\ UNCHANGED << pipeline, run, levels, level_idx, cls, op_outputs, failed_ops,
                    step_completed, step_failed, invoked, raised, returned, accounted, ops_at_start,
                    steps_at_start, prev_clean >>
    /\ UNCHANGED outside_engine

\* ------------------------------------------------------------------------
\* _run_op: the coroutines of one level run interleaved inside asyncio.gather
\* ------------------------------------------------------------------------

Launched(op_id) == op_id \in DOMAIN tasks

\* the sessions that are open: the caller's and those of the coroutines that
\* are inside "async with async_session_maker() as op_session"
OpenSessions ==
    {CallerContext.db} \cup
        { tasks[o].local_context.db :
            o \in { q \in DOMAIN tasks : tasks[q].local_context # NoContext } }

Running(op_id, tpc) ==
    /\ pc = "gather"
    /\ op_id \in Range(level_op_ids)
    /\ Launched(op_id)
    /\ tasks[op_id].kind = "run"
    /\ tasks[op_id].pc = tpc

\* "return {}" of the operator-level smart-skip (line 384)
SkipOutputAsBefore(op_ref) == [k \in {OutputPort(op_ref.operator_key)} |-> op_ref.id]

SkipOutput(op_ref) == EmptyMap

\* get_operator(op_ref.operator_key) raises KeyError (registry.py lines 26-30)
Unregistered(op_ref) == op_ref.operator_key \notin DOMAIN REGISTRY

\* the session and the local context, get_operator, the operator-level
\* smart-skip, the operator_started row and the call of execute (lines
\* 368-399); on the two paths that leave the "async with" block here the
\* session is opened and closed within the step
OpBegin(op_id) ==
    /\ Running(op_id, "pending")
    /\ LET op_ref == OpMap(pipeline, op_id)
           step_key == OpToStep(pipeline, op_id)
       IN IF Unregistered(op_ref)
          THEN /\ tasks' = [tasks EXCEPT ![op_id].pc = "done",
                                         ![op_id].result = Result("exception", EmptyMap)]
               /\ UNCHANGED << log, invoked >>
          ELSE IF IsOperatorCompleted(log, op_ref.id)
          THEN /\ tasks' = [tasks EXCEPT ![op_id].pc = "done",
                                         ![op_id].opskip = TRUE,
                                         ![op_id].result =
                                            Result("output", SkipOutput(op_ref))]
               /\ UNCHANGED << log, invoked >>
          ELSE /\ log' = LogEvent(log, "operator_started", "running", op_ref.id, step_key)
               /\ invoked' = [invoked EXCEPT ![op_id] = @ + 1]
               /\ tasks' = [tasks EXCEPT ![op_id].pc = "executing",
                                         ![op_id].local_context =
                                            LocalContext(CallerContext,
                                                         NewSession(OpenSessions)),
                                         ![op_id].merged_inputs =
                                            MergedInputs(op_ref, tasks[op_id].inputs)]
    /\ UNCHANGED << pipeline, run, pc, levels, level_idx, pos, cls, op_outputs,
                    failed_ops, step_started, step_completed, step_failed, raised,
                    returned, accounted, ops_at_start, steps_at_start, prev_clean, step_events >>
    /\ UNCHANGED outside_engine

\* what execute returns on success
OutputOf(op_ref) == [k \in {OutputPort(op_ref.operator_key)} |-> op_ref.id]

\* _update_lens_log followed by the commit of the operator's session, which
\* inserts the llm_call row the operator added, if any
CommitOpDeferred(rows, op_ref, status, llm) == rows

CommitOp(rows, op_ref, status, llm) ==
    LET updated == UpdateLensLog(rows, op_ref.id, status)
    IN IF llm = None THEN updated
       ELSE Insert(updated, LLMCallRow(op_ref.operator_key, llm = "failed"))

\* execute returns its output map (an LLM operator has added its llm_call row
\* to the operator's session); the completed status is committed (lines 413-426)
OpExecuteReturns(op_id) ==
    /\ Running(op_id, "executing")
    /\ LET op_ref == OpMap(pipeline, op_id)
           llm == IF REGISTRY[op_ref.operator_key] = "llm" THEN "completed" ELSE None
       IN /\ tasks' = [tasks EXCEPT ![op_id].pc = "done",
                                    ![op_id].local_context = NoContext,
                                    ![op_id].result = Result("output", OutputOf(op_ref))]
          /\ log' = CommitOp(log, op_ref, "completed", llm)
    /\ returned' = returned \cup {op_id}
    /\ UNCHANGED << pipeline, run, pc, levels, level_idx, pos, cls, op_outputs,
                    failed_ops, step_started, step_completed, step_failed, invoked,
                    raised, accounted, ops_at_start, steps_at_start, prev_clean, step_events >>
    /\ UNCHANGED outside_engine

\* execute raises: before the LLM call (validate_inputs, a tool handler), in
\* the LLM call (llm_call row failed) or after it (llm_call row completed, then
\* _parse_json_robust or _map_output raises); the failed status is committed
\* and the exception re-raised (lines 400-411)
OpExecuteRaises(op_id) ==
    /\ Running(op_id, "executing")
    /\ LET op_ref == OpMap(pipeline, op_id)
       IN \E llm \in (IF REGISTRY[op_ref.operator_key] = "llm"
                      THEN {None, "failed", "completed"} ELSE {None}) :
            /\ tasks' = [tasks EXCEPT ![op_id].pc = "done",
                                      ![op_id].local_context = NoContext,
                                      ![op_id].result = Result("exception", EmptyMap)]
            /\ log' = CommitOp(log, op_ref, "failed", llm)
    /\ raised' = raised \cup {op_id}
    /\ UNCHANGED << pipeline, run, pc, levels, level_idx, pos, cls, op_outputs,
                    failed_ops, step_started, step_completed, step_failed, invoked,
                    returned, accounted, ops_at_start, steps_at_start, prev_clean, step_events >>
    /\ UNCHANGED outside_engine

\* ------------------------------------------------------------------------
\* results = await asyncio.gather(*tasks, return_exceptions=True) (line 199)
\* ------------------------------------------------------------------------

\* gather resumes run when every awaitable of the level has finished
GatherReadyFirstCompleted(ids) ==
    \E i \in 1..Len(ids) : tasks[ids[i]].pc = "done" /\ tasks[ids[i]].kind = "run"

GatherReady(ids) == \A i \in 1..Len(ids) : tasks[ids[i]].pc = "done"

ReturnExceptionsOff == FALSE

ReturnExceptions == TRUE

GatherReturns ==
    /\ pc = "gather"
    /\ GatherReady(level_op_ids)
    /\ IF ~ ReturnExceptions
          /\ \E i \in 1..Len(level_op_ids) :
                IsException(tasks[level_op_ids[i]].result)
       THEN pc' = "raised"
       ELSE pc' = "classify"
    /\ cls' = 1
    /\ UNCHANGED << pipeline, log, run, levels, level_idx, pos, tasks, op_outputs,
                    failed_ops, step_started, step_completed, step_failed, invoked,
                    raised, returned, accounted, ops_at_start, steps_at_start,
                    prev_clean, step_events >>
    /\ UNCHANGED outside_engine

\* ------------------------------------------------------------------------
\* run: the loop "for op_id, result in zip(op_ids_in_level, results)"
\* (lines 201-242)
\* ------------------------------------------------------------------------

\* the loop over the level's results has ended
ClassifyLoopDoneEarly(next, ids) == next > 1

ClassifyLoopDone(next, ids) == next > Len(ids)

\* "for level_idx, level_op_ids in enumerate(levels)" (line 122): the index
\* of the iteration that follows the one with index idx
NextLevelSameAfterFailure(idx, failed) == IF failed = {} THEN idx + 1 ELSE idx

NextLevel(idx, failed) == idx + 1

\* next result, next level, or "return op_outputs"
AfterClassify ==
    IF ClassifyLoopDone(cls + 1, level_op_ids)
    THEN /\ cls' = 1
         /\ pos' = 1
         /\ IF NextLevel(level_idx, failed_ops) > Len(levels)
            THEN /\ pc' = "done"
                 /\ level_idx' = level_idx
            ELSE /\ pc' = "launch"
                 /\ level_idx' = NextLevel(level_idx, failed_ops)
    ELSE /\ cls' = cls + 1
         /\ UNCHANGED << pos, pc, level_idx >>

\* "if result is _SKIPPED: continue"
ClassifySkipped ==
    /\ pc = "classify"
    /\ LET op_id == level_op_ids[cls]
       IN /\ tasks[op_id].result.kind = SKIPPED
          /\ accounted' = accounted \cup {op_id}
    /\ AfterClassify
    /\ UNCHANGED << pipeline, log, run, levels, tasks, op_outputs, failed_ops,
                    step_started, step_completed, step_failed, invoked, raised,
                    returned, ops_at_start, steps_at_start, prev_clean, step_events >>
    /\ UNCHANGED outside_engine

\* "if isinstance(result, BaseException)" (lines 207-229)
ClassifyFailed ==
    /\ pc = "classify"
    /\ LET op_id == level_op_ids[cls]
           step_key == OpToStep(pipeline, op_id)
           logged == LogEvent(log, "operator_failed", "failed", op_id, step_key)
       IN /\ IsException(tasks[op_id].result)
          /\ failed_ops' = failed_ops \cup {op_id}
          /\ IF FirstStepFailure(step_key, step_failed)
             THEN /\ step_failed' = step_failed \cup {step_key}
                  /\ log' = LogStepEvent(logged, step_key, "step_failed", "failed")
                  /\ step_events' = CountStepEvent(step_events, step_key, "step_failed")
             ELSE /\ log' = logged
                  /\ UNCHANGED << step_failed, step_events >>
          /\ accounted' = accounted \cup {op_id}
    /\ AfterClassify
    /\ UNCHANGED << pipeline, run, levels, tasks, op_outputs, step_started,
                    step_completed, invoked, raised, returned,
                    ops_at_start, steps_at_start, prev_clean >>
    /\ UNCHANGED outside_engine

\* "op_outputs[op_id] = result" and the Step completion (lines 231-242)
ClassifySucceeded ==
    /\ pc = "classify"
    /\ LET op_id == level_op_ids[cls]
           step_key == OpToStep(pipeline, op_id)
       IN /\ tasks[op_id].result.kind # SKIPPED
          /\ ~ IsException(tasks[op_id].result)
          /\ op_outputs' = StoreOutput(op_outputs, op_id, tasks[op_id].result.value)
          /\ IF StepCompletes(pipeline, op_id, step_key, step_failed)
             THEN /\ step_completed' = step_completed \cup {step_key}
                  /\ log' = LogStepEvent(log, step_key, "step_completed", "completed")
                  /\ step_events' = CountStepEvent(step_events, step_key, "step_completed")
             ELSE UNCHANGED << step_completed, log, step_events >>
          /\ accounted' = accounted \cup {op_id}
    /\ AfterClassify
    /\ UNCHANGED << pipeline, run, levels, tasks, failed_ops, step_started,
                    step_failed, invoked, raised, returned,
                    ops_at_start, steps_at_start, prev_clean >>
    /\ UNCHANGED outside_engine

\* ------------------------------------------------------------------------
\* The process dies during a run; the committed log rows survive
\* ------------------------------------------------------------------------

Crash ==
    /\ pc \in {"launch", "gather", "classify"}
    /\ pc' = "idle"
    /\ ResetLocals
    /\ UNCHANGED << pipeline, log, run, returned, ops_at_start, steps_at_start, prev_clean >>
    /\ UNCHANGED outside_engine

Next ==
    \/ RunBegin
    \/ LaunchUpstreamFailed
    \/ LaunchStepCompleted
    \/ LaunchStepMarked
    \/ LaunchRunOp
    \/ \E op_id \in OpIds(pipeline) : OpBegin(op_id)
    \/ \E op_id \in OpIds(pipeline) : OpExecuteReturns(op_id)
    \/ \E op_id \in OpIds(pipeline) : OpExecuteRaises(op_id)
    \/ GatherReturns
    \/ ClassifySkipped
    \/ ClassifyFailed
    \/ ClassifySucceeded
    \/ Crash

Spec == Init /\ [][Next]_vars

\* ------------------------------------------------------------------------
\* run in a process that does not die: the event loop keeps running what is
\* ready, and every call of execute returns or raises
\* ------------------------------------------------------------------------

RunStep ==
    \/ LaunchUpstreamFailed
    \/ LaunchStepCompleted
    \/ LaunchStepMarked
    \/ LaunchRunOp
    \/ \E op_id \in OpIds(pipeline) : OpBegin(op_id)
    \/ \E op_id \in OpIds(pipeline) : OpExecuteReturns(op_id)
    \/ \E op_id \in OpIds(pipeline) : OpExecuteRaises(op_id)
    \/ GatherReturns
    \/ ClassifySkipped
    \/ ClassifyFailed
    \/ ClassifySucceeded

NextRun == RunBegin \/ RunStep

SpecRun == Init /\ [][NextRun]_vars /\ WF_vars(RunStep)

\* ------------------------------------------------------------------------
\* _topological_levels on its own: every graph on up to MaxOps op ids, one
\* Step per op id, with up to MaxEdges operator pairs joined by edges
\* ------------------------------------------------------------------------

OpNames == << "a", "b", "c", "d", "e" >>

GraphOps == { OpNames[i] : i \in 1..MaxOps }

RECURSIVE SetToSeq(_)
SetToSeq(S) == IF S = {} THEN << >>
               ELSE LET x == CHOOSE x \in S : TRUE IN << x >> \o SetToSeq(S \ {x})

\* one edge per pair; with dup, a second edge between the same pair on
\* another port and an edge from __input__ into the target
GraphEdges(pairs, dup) ==
    LET ps == SetToSeq(pairs)
    IN Flatten([i \in 1..Len(ps) |->
            IF dup
            THEN << Edge(ps[i][1], "out", ps[i][2], "in"),
                    Edge(INPUT, "url", ps[i][2], "url"),
                    Edge(ps[i][1], "out", ps[i][2], "in2") >>
            ELSE << Edge(ps[i][1], "out", ps[i][2], "in") >>])

GraphPipeline(pairs, dup) ==
    Pipeline("graph",
        [i \in 1..MaxOps |-> Step(OpNames[i], << OpRef(OpNames[i], "summary") >>)],
        GraphEdges(pairs, dup))

\* edges A -> B twice (two ports) and __input__ -> C
PDupInput ==
    Pipeline("dup_input",
        << Step("A", << OpRef("A", "summary") >>),
           Step("B", << OpRef("B", "summary") >>),
           Step("C", << OpRef("C", "summary") >>) >>,
        << Edge("A", "out", "B", "in"),
           Edge("A", "out2", "B", "in2"),
           Edge(INPUT, "url", "C", "url") >>)

InitLevels ==
    /\ \/ \E pairs \in SUBSET (GraphOps \X GraphOps) : \E dup \in BOOLEAN :
                /\ Cardinality(pairs) <= MaxEdges
                /\ pipeline = GraphPipeline(pairs, dup)
       \/ pipeline = PDupInput
    /\ log = EmptyLog
    /\ run = 0
    /\ pc = "idle"
    /\ levels = << >>
    /\ level_idx = 1
    /\ pos = 1
    /\ cls = 1
    /\ tasks = EmptyMap
    /\ op_outputs = EmptyMap
    /\ failed_ops = {}
    /\ step_started = {}
    /\ step_completed = {}
    /\ step_failed = {}
    /\ invoked = [o \in OpIds(pipeline) |-> 0]
    /\ raised = {}
    /\ returned = {}
    /\ accounted = {}
    /\ ops_at_start = {}
    /\ steps_at_start = {}
    /\ prev_clean = FALSE
    /\ step_events = NoStepEvents(pipeline)
    /\ ExecuteIdle
    /\ RegistryIdle
    /\ BackgroundIdle
    /\ PaperIdle

\* _topological_levels returns a list of levels
LevelsReturned ==
    /\ pc = "idle"
    /\ \E r \in TopologicalLevels(pipeline) :
        /\ r.err = None
        /\ levels' = r.levels
    /\ pc' = "levels"
    /\ UNCHANGED << pipeline, log, run, level_idx, pos, cls, tasks, op_outputs,
                    failed_ops, step_started, step_completed, step_failed, invoked,
                    raised, returned, accounted, ops_at_start, steps_at_start,
                    prev_clean, step_events >>
    /\ UNCHANGED outside_engine

\* _topological_levels raises
LevelsRaised ==
    /\ pc = "idle"
    /\ \E r \in TopologicalLevels(pipeline) : r.err # None
    /\ pc' = "raised"
    /\ UNCHANGED << pipeline, log, run, levels, level_idx, pos, cls, tasks, op_outputs,
                    failed_ops, step_started, step_completed, step_failed, invoked,
                    raised, returned, accounted, ops_at_start, steps_at_start,
                    prev_clean, step_events >>
    /\ UNCHANGED outside_engine

NextLevels == LevelsReturned \/ LevelsRaised

SpecLevels == InitLevels /\ [][NextLevels]_vars

\* ------------------------------------------------------------------------
\* The engine's variables while another part of the program is looked at
\* ------------------------------------------------------------------------

\* no run has been started
EngineIdle ==
    /\ pipeline = PFork
    /\ log = EmptyLog
    /\ run = 0
    /\ pc = "idle"
    /\ levels = << >>
    /\ level_idx = 1
    /\ pos = 1
    /\ cls = 1
    /\ tasks = EmptyMap
    /\ op_outputs = EmptyMap
    /\ failed_ops = {}
    /\ step_started = {}
    /\ step_completed = {}
    /\ step_failed = {}
    /\ invoked = [o \in OpIds(pipeline) |-> 0]
    /\ raised = {}
    /\ returned = {}
    /\ accounted = {}
    /\ ops_at_start = {}
    /\ steps_at_start = {}
    /\ prev_clean = FALSE
    /\ step_events = NoStepEvents(pipeline)

\* ------------------------------------------------------------------------
\* OperatorBase.validate_inputs and the execute of ToolOperator and
\* LLMOperator (base.py, tool/loader.py, llm/__init__.py), for every operator
\* with up to MaxPorts input ports and every inputs map over InputKeys
\* ------------------------------------------------------------------------

\* Number of input ports of the operators execute is checked on.
MaxPorts == 2

\* a Port with the fields validate_inputs reads
Port(key, required) == [key |-> key, required |-> required]

PortKeys == {"text", "notes", "images"}

\* the keys an inputs map may hold: the port keys and one that is no port
InputKeys == PortKeys \cup {"extra"}

PortLists ==
    UNION { [1..n -> { Port(k, r) : k \in PortKeys, r \in BOOLEAN }] : n \in 0..MaxPorts }

\* an operator instance: kind is "llm" or "tool"
OperatorInstance(kind, input_ports) == [kind |-> kind, input_ports |-> input_ports]

\* "if port.required and port.key not in inputs" (base.py line 81)
PortMissingOptionalToo(port, inputs) == port.key \notin DOMAIN inputs

PortMissing(port, inputs) == port.required /\ port.key \notin DOMAIN inputs

\* validate_inputs: the loop over input_ports from port i on; the key of the
\* port the ValueError names, None when the loop ends without raising
RECURSIVE ValidateLoop(_, _, _)
ValidateLoop(input_ports, i, inputs) ==
    IF i > Len(input_ports) THEN None
    ELSE IF PortMissing(input_ports[i], inputs) THEN input_ports[i].key
    ELSE ValidateLoop(input_ports, i + 1, inputs)

ValidateInputs(op, inputs) == ValidateLoop(op.input_ports, 1, inputs)

InitExecute ==
    /\ EngineIdle
    /\ RegistryIdle
    /\ BackgroundIdle
    /\ PaperIdle
    /\ \E kind \in {"llm", "tool"} : \E input_ports \in PortLists :
            operator = OperatorInstance(kind, input_ports)
    /\ exec_inputs \in UNION { [ks -> {"value"}] : ks \in SUBSET InputKeys }
    /\ exec_pc = "start"
    /\ exec_error = None
    /\ exec_called = {}

outside_execute == << engine_vars, registry_vars, background_vars, paper_vars >>

\* "self.validate_inputs(inputs)" raises (loader.py line 51, llm line 48)
ValidateRaises ==
    /\ exec_pc = "start"
    /\ ValidateInputs(operator, exec_inputs) # None
    /\ exec_error' = ValidateInputs(operator, exec_inputs)
    /\ exec_pc' = "raised"
    /\ UNCHANGED << operator, exec_inputs, exec_called >>
    /\ UNCHANGED outside_execute

\* "self.validate_inputs(inputs)" returns
ValidatePasses ==
    /\ exec_pc = "start"
    /\ ValidateInputs(operator, exec_inputs) = None
    /\ exec_pc' = "validated"
    /\ UNCHANGED << operator, exec_inputs, exec_error, exec_called >>
    /\ UNCHANGED outside_execute

\* an LLM operator: load_prompt_config or _render_messages raises before the
\* LLM call (llm lines 50-51)
PromptRaises ==
    /\ exec_pc = "validated"
    /\ operator.kind = "llm"
    /\ exec_pc' = "raised"
    /\ UNCHANGED << operator, exec_inputs, exec_error, exec_called >>
    /\ UNCHANGED outside_execute

\* "await self._handler(inputs, context)" (loader.py line 52) or the LLM call
\* inside LLMMonitor (llm lines 97-106) begins
CallBody ==
    /\ exec_pc = "validated"
    /\ exec_called' = {IF operator.kind = "tool" THEN "handler" ELSE "llm_call"}
    /\ exec_pc' = "body"
    /\ UNCHANGED << operator, exec_inputs, exec_error >>
    /\ UNCHANGED outside_execute

BodyReturns ==
    /\ exec_pc = "body"
    /\ exec_pc' = "returned"
    /\ UNCHANGED << operator, exec_inputs, exec_error, exec_called >>
    /\ UNCHANGED outside_execute

BodyRaises ==
    /\ exec_pc = "body"
    /\ exec_pc' = "raised"
    /\ UNCHANGED << operator, exec_inputs, exec_error, exec_called >>
    /\ UNCHANGED outside_execute

NextExecute ==
    \/ ValidateRaises
    \/ ValidatePasses
    \/ PromptRaises
    \/ CallBody
    \/ BodyReturns
    \/ BodyRaises

SpecExecute == InitExecute /\ [][NextExecute]_vars

\* ------------------------------------------------------------------------
\* register_operator and get_operator (registry.py) on their own: up to
\* MaxCalls calls on a registry that starts empty
\* ------------------------------------------------------------------------

\* Number of calls of register_operator and get_operator.
MaxCalls == 4

\* an operator class with its class attribute key
Class(name, key) == [name |-> name, key |-> key]

\* two classes that declare the same key, and one with another key
OperatorClasses ==
    { Class("SummaryOperator", "summary"),
      Class("BriefSummaryOperator", "summary"),
      Class("ReadingNotesOperator", "reading_notes") }

\* the keys get_operator is called with; no class declares "translate"
LookupKeys == {"summary", "reading_notes", "translate"}

\* get_operator has not been called
NoLookup == [call |-> 0, key |-> None, err |-> None, cls |-> None, instance |-> 0]

InitRegistry ==
    /\ EngineIdle
    /\ ExecuteIdle
    /\ BackgroundIdle
    /\ PaperIdle
    /\ registry = EmptyMap
    /\ registered = << >>
    /\ instances = 0
    /\ lookup = NoLookup

outside_registry == << engine_vars, execute_vars, background_vars, paper_vars >>

\* "_REGISTRY[key] = cls" (line 22)
RegistryKeepsFirst(reg, op_class) ==
    IF HasKey(reg, op_class.key) THEN reg ELSE Put(reg, op_class.key, op_class.name)

RegistryWith(reg, op_class) == Put(reg, op_class.key, op_class.name)

\* register_operator(cls)
RegisterOperator(op_class) ==
    /\ Len(registered) + lookup.call < MaxCalls
    /\ registry' = RegistryWith(registry, op_class)
    /\ registered' = Append(registered, op_class)
    /\ UNCHANGED << instances, lookup >>
    /\ UNCHANGED outside_registry

\* get_operator(key): KeyError, or "_REGISTRY[key]()", a new instance
GetOperator(key) ==
    /\ Len(registered) + lookup.call < MaxCalls
    /\ IF ~ HasKey(registry, key)
       THEN /\ lookup' = [call |-> lookup.call + 1, key |-> key, err |-> "KeyError",
                          cls |-> None, instance |-> 0]
            /\ UNCHANGED instances
       ELSE /\ instances' = instances + 1
            /\ lookup' = [call |-> lookup.call + 1, key |-> key, err |-> None,
                          cls |-> registry[key], instance |-> instances + 1]
    /\ UNCHANGED << registry, registered >>
    /\ UNCHANGED outside_registry

NextRegistry ==
    \/ \E op_class \in OperatorClasses : RegisterOperator(op_class)
    \/ \E key \in LookupKeys : GetOperator(key)

SpecRegistry == InitRegistry /\ [][NextRegistry]_vars

\* ------------------------------------------------------------------------
\* _gather_inputs on its own: every list of up to MaxGatherEdges edges drawn
\* from GatherEdges, with every outputs map of GatherOutputs
\* ------------------------------------------------------------------------

\* Number of edges of the pipelines _gather_inputs is checked on.
MaxGatherEdges == 3

\* edges into x on two ports from __input__, a and b, some of them naming a
\* port their source does not fill, and one edge into y
GatherEdges ==
    { Edge(INPUT, "url", "x", "in"),
      Edge(INPUT, "pdf", "x", "in"),
      Edge("a", "text", "x", "in"),
      Edge("a", "notes", "x", "in"),
      Edge("a", "text", "x", "in2"),
      Edge("b", "text", "x", "in"),
      Edge("b", "text", "x", "in2"),
      Edge("a", "text", "y", "in") }

GatherPipeline(edges) ==
    Pipeline("gather",
        << Step("a", << OpRef("a", "pdf_fetch") >>),
           Step("b", << OpRef("b", "pdf_fetch") >>),
           Step("x", << OpRef("x", "summary") >>),
           Step("y", << OpRef("y", "summary") >>) >>,
        edges)

\* op_outputs as run can hold it when it gathers: the initial inputs under
\* __input__; for a no entry, {} or an output map; for b no entry or a map
GatherOutputs ==
    { [k \in {INPUT} \cup DOMAIN outs |->
            IF k = INPUT THEN InitialInputs ELSE outs[k]] :
        outs \in UNION { [ks -> {EmptyMap}] : ks \in SUBSET {"a"} }
              \cup { [k \in ks |-> IF k = "a" THEN a ELSE [text |-> "b.text"]] :
                        ks \in {{"a"}, {"b"}, {"a", "b"}},
                        a \in { [text |-> "a.text"],
                                [text |-> "a.text", notes |-> "a.notes"] } } }

InitGather ==
    /\ \E n \in 0..MaxGatherEdges : \E edges \in [1..n -> GatherEdges] :
            pipeline = GatherPipeline(edges)
    /\ op_outputs \in GatherOutputs
    /\ log = EmptyLog
    /\ run = 0
    /\ pc = "idle"
    /\ levels = << >>
    /\ level_idx = 1
    /\ pos = 1
    /\ cls = 1
    /\ tasks = EmptyMap
    /\ failed_ops = {}
    /\ step_started = {}
    /\ step_completed = {}
    /\ step_failed = {}
    /\ invoked = [o \in OpIds(pipeline) |-> 0]
    /\ raised = {}
    /\ returned = {}
    /\ accounted = {}
    /\ ops_at_start = {}
    /\ steps_at_start = {}
    /\ prev_clean = FALSE
    /\ step_events = NoStepEvents(pipeline)
    /\ ExecuteIdle
    /\ RegistryIdle
    /\ BackgroundIdle
    /\ PaperIdle

\* "inputs = self._gather_inputs(op_id, pipeline.edges, op_outputs)" and the
\* coroutine created with them (lines 195-196)
GatherCall(op_id) ==
    /\ pc = "idle"
    /\ tasks' = Put(tasks, op_id,
                    Task("run", "pending",
                         GatherInputs(op_id, pipeline.edges, op_outputs), NoResult))
    /\ pc' = "gathered"
    /\ UNCHANGED << pipeline, log, run, levels, level_idx, pos, cls, op_outputs,
                    failed_ops, step_started, step_completed, step_failed, invoked,
                    raised, returned, accounted, ops_at_start, steps_at_start,
                    prev_clean, step_events >>
    /\ UNCHANGED outside_engine

NextGather == \E op_id \in {"x", "y"} : GatherCall(op_id)

SpecGather == InitGather /\ [][NextGather]_vars

\* ------------------------------------------------------------------------
\* process_paper_background under "async with _concurrency_limit"
\* (paper_tasks.py lines 20-59), for MaxTasks tasks on one event loop
\* ------------------------------------------------------------------------

\* Number of process_paper_background tasks.
MaxTasks == 4

BgTasks == 1..MaxTasks

\* "_concurrency_limit = asyncio.Semaphore(3)"
ConcurrencyLimit == 3

\* asyncio.Semaphore: _value and _waiters; a waiter is the future of a task
\* that waits in acquire, done once _wake_up_next has set its result
Semaphore(value, waiters) == [value |-> value, waiters |-> waiters]

Waiter(task, done) == [task |-> task, done |-> done]

\* Semaphore.locked(): no future is ever cancelled here
LockedNever(sem) == FALSE

Locked(sem) == sem.value = 0 \/ sem.waiters # << >>

\* Semaphore._wake_up_next(): the first waiter that is not done gets the slot
WakeUpNext(sem) ==
    LET pending == { i \in 1..Len(sem.waiters) : ~ sem.waiters[i].done }
    IN IF pending = {} THEN sem
       ELSE LET first == CHOOSE i \in pending : \A j \in pending : i <= j
            IN [value |-> sem.value - 1,
                waiters |-> [sem.waiters EXCEPT ![first].done = TRUE]]

\* Semaphore.release()
Release(sem) == WakeUpNext([sem EXCEPT !.value = @ + 1])

\* index of the task's future in the queue of waiters
WaiterOf(sem, task) == CHOOSE i \in 1..Len(sem.waiters) : sem.waiters[i].task = task

InitBackground ==
    /\ EngineIdle
    /\ ExecuteIdle
    /\ RegistryIdle
    /\ PaperIdle
    /\ semaphore = Semaphore(ConcurrencyLimit, << >>)
    /\ bg = [t \in BgTasks |-> "created"]

outside_background == << engine_vars, execute_vars, registry_vars, paper_vars >>

\* the task reaches "async with _concurrency_limit" (line 29): acquire takes
\* a slot at once, or queues a future and waits
Acquire(t) ==
    /\ bg[t] = "created"
    /\ IF ~ Locked(semaphore)
       THEN /\ semaphore' = [semaphore EXCEPT !.value = @ - 1]
            /\ bg' = [bg EXCEPT ![t] = "inside"]
       ELSE /\ semaphore' = [semaphore EXCEPT !.waiters = Append(@, Waiter(t, FALSE))]
            /\ bg' = [bg EXCEPT ![t] = "waiting"]
    /\ UNCHANGED outside_background

\* the event loop resumes a task whose future is done: it leaves the queue,
\* passes a spare slot on, and enters the block
Resume(t) ==
    /\ bg[t] = "waiting"
    /\ semaphore.waiters[WaiterOf(semaphore, t)].done
    /\ LET left == [semaphore EXCEPT !.waiters = RemoveAt(@, WaiterOf(semaphore, t))]
       IN semaphore' = IF left.value > 0 THEN WakeUpNext(left) ELSE left
    /\ bg' = [bg EXCEPT ![t] = "inside"]
    /\ UNCHANGED outside_background

\* _run_pipeline returns (lines 32-34)
PipelineReturns(t) ==
    /\ bg[t] = "inside"
    /\ bg' = [bg EXCEPT ![t] = "returned"]
    /\ UNCHANGED semaphore
    /\ UNCHANGED outside_background

\* _run_pipeline raises and the except branch has run (lines 35-59)
PipelineRaises(t) ==
    /\ bg[t] = "inside"
    /\ bg' = [bg EXCEPT ![t] = "excepted"]
    /\ UNCHANGED semaphore
    /\ UNCHANGED outside_background

\* the task leaves the "async with" block: release
Leave(t) ==
    /\ bg[t] \in {"returned", "excepted"}
    /\ semaphore' = Release(semaphore)
    /\ bg' = [bg EXCEPT ![t] = "done"]
    /\ UNCHANGED outside_background

NextBackground ==
    \/ \E t \in BgTasks : Acquire(t)
    \/ \E t \in BgTasks : Resume(t)
    \/ \E t \in BgTasks : PipelineReturns(t)
    \/ \E t \in BgTasks : PipelineRaises(t)
    \/ \E t \in BgTasks : Leave(t)

\* the event loop runs every task that is ready, and the pipeline run of a
\* task that is inside the block ends
SpecBackground ==
    /\ InitBackground
    /\ [][NextBackground]_vars
    /\ \A t \in BgTasks :
            /\ WF_vars(Resume(t))
            /\ WF_vars(PipelineReturns(t) \/ PipelineRaises(t))
            /\ WF_vars(Leave(t))

\* ------------------------------------------------------------------------
\* What run returns and how _run_pipeline takes it (engine.py line 250,
\* paper_tasks.py line 134)
\* ------------------------------------------------------------------------

\* a Python value together with its type
PyDict(items) == [type |-> "dict", items |-> items]

PyTuple(items) == [type |-> "tuple", items |-> items]

\* "return op_outputs"
RunReturn == PyDict(op_outputs)

\* iter(value): a tuple yields its items, a dict its keys in insertion order;
\* "__input__" is the key inserted first (line 114)
Iterate(value) ==
    IF value.type = "tuple" THEN value.items
    ELSE << INPUT >> \o SetToSeq((DOMAIN value.items) \ {INPUT})

\* "op_outputs, failed_ops = await engine.run(...)": the two names bound, or
\* the ValueError of an unpacking with too few or too many values
Unpack2(value) ==
    LET it == Iterate(value)
    IN IF Len(it) # 2 THEN [err |-> "ValueError"]
       ELSE [err |-> None, op_outputs |-> it[1], failed_ops |-> it[2]]

\* "if failed_ops" for a str, which is what a name bound by unpacking a dict
\* holds (a key of the dict)
Truthy(value) == value # ""

\* what is listed after "Pipeline failed on operators: ": ", ".join(x) joins
\* the elements of a collection of op ids and the characters of a str
Joined(kind, value) == [of |-> kind, value |-> value]

\* how the source ends (status, error_log, event_type of the SourceLog row)
\* when run has returned value: step 6 of _run_pipeline (paper_tasks.py lines
\* 134-158), or the except branch of process_paper_background (lines 35-57)
\* when the unpacking raises
SourceOutcome(value) ==
    LET u == Unpack2(value)
    IN IF u.err # None
       THEN [status |-> "FAILED", event_type |-> "error",
             error_log |-> Joined("exception", u.err)]
       ELSE IF Truthy(u.failed_ops)
       THEN [status |-> "FAILED", event_type |-> "sync_failed",
             error_log |-> Joined("characters", u.failed_ops)]
       ELSE [status |-> "COMPLETED", event_type |-> "sync_completed",
             error_log |-> Joined("nothing", None)]

\* ------------------------------------------------------------------------
\* One process_paper_background task and its source (paper_tasks.py lines
\* 24-158); the semaphore around it is taken on its own above
\* ------------------------------------------------------------------------

\* Largest number of keys of the dict engine.run returns.
MaxKeys == 3

\* a row of sources: the columns paper_tasks.py reads and writes
Source(status, error_log, url) ==
    [status |-> status, error_log |-> error_log, url |-> url]

\* "status: PENDING, PROCESSING, COMPLETED (snapshot), ..." (models.py line
\* 259), and FAILED as paper_tasks.py writes it
SourceStatuses == {"PENDING", "PROCESSING", "COMPLETED", "FAILED"}

\* scalar_one_or_none() finds no row
NoSource == Source(None, None, None)

\* the source as the task can find it: no row, or a row with or without a
\* url in its connection_config, and with or without the error_log of an
\* earlier task
Sources ==
    {NoSource} \cup
    { Source(st, e, u) : st \in SourceStatuses,
                         e \in {None, "Pipeline failed on operators"},
                         u \in {None, "url"} }

\* a SourceLog row written by paper_tasks.py
PaperLog(event_type, status) == [event_type |-> event_type, status |-> status]

\* the dicts run can return: "__input__" and the outputs of some operators
RunValues ==
    LET ks == << INPUT, "fetch", "summary", "notes", "quiz" >>
    IN { PyDict([k \in { ks[i] : i \in 1..n } |-> "out"]) : n \in 1..MaxKeys }

\* engine.run has not returned
NoValue == PyDict(EmptyMap)

\* what "except Exception" catches: CancelledError derives from BaseException
ExceptionKinds == {"Exception", "CancelledError"}

IsExceptionClass(kind) == kind # "CancelledError"

InitPaper ==
    /\ EngineIdle
    /\ ExecuteIdle
    /\ RegistryIdle
    /\ BackgroundIdle
    /\ source \in Sources
    /\ source_logs = << >>
    /\ paper_pc = "fetch"
    /\ paper_exc = None
    /\ run_value = NoValue

outside_paper == << engine_vars, execute_vars, registry_vars, background_vars >>

\* 1. Fetch Source (lines 69-75)
FetchSource ==
    /\ paper_pc = "fetch"
    /\ paper_pc' = IF source = NoSource THEN "returned" ELSE "status"
    /\ UNCHANGED << source, source_logs, paper_exc, run_value >>
    /\ UNCHANGED outside_paper

\* 2. Update status to PROCESSING (lines 78-80)
MarkProcessing ==
    /\ paper_pc = "status"
    /\ source' = IF source.status # "PROCESSING"
                 THEN [source EXCEPT !.status = "PROCESSING"]
                 ELSE source
    /\ paper_pc' = "url"
    /\ UNCHANGED << source_logs, paper_exc, run_value >>
    /\ UNCHANGED outside_paper

\* 3. Resolve URL (lines 83-88)
ResolveUrl ==
    /\ paper_pc = "url"
    /\ IF source.url = None
       THEN /\ source' = [source EXCEPT !.status = "FAILED",
                                        !.error_log = "No URL configured for source"]
            /\ paper_pc' = "returned"
       ELSE /\ paper_pc' = "material"
            /\ UNCHANGED source
    /\ UNCHANGED << source_logs, paper_exc, run_value >>
    /\ UNCHANGED outside_paper

\* 4. Ensure SourceMaterial exists (lines 91-120): nothing of the source
\* changes
EnsureMaterial ==
    /\ paper_pc = "material"
    /\ paper_pc' = "run"
    /\ UNCHANGED << source, source_logs, paper_exc, run_value >>
    /\ UNCHANGED outside_paper

\* 5. "op_outputs, failed_ops = await engine.run(...)" (lines 123-134): run
\* returns a dict and the unpacking binds two of its keys or raises
RunEngine ==
    /\ paper_pc = "run"
    /\ \E value \in RunValues :
         IF Unpack2(value).err # None
         THEN /\ paper_pc' = "raised"
              /\ paper_exc' = "Exception"
              /\ UNCHANGED run_value
         ELSE /\ paper_pc' = "mark"
              /\ run_value' = value
              /\ UNCHANGED paper_exc
    /\ UNCHANGED << source, source_logs >>
    /\ UNCHANGED outside_paper

\* 6. Mark completed or failed (lines 137-158): one commit for the status and
\* the SourceLog row
MarkOutcome ==
    /\ paper_pc = "mark"
    /\ LET failed == Unpack2(run_value).failed_ops
       IN IF Truthy(failed)
          THEN /\ source' = [source EXCEPT !.status = "FAILED",
                                           !.error_log = "Pipeline failed on operators"]
               /\ source_logs' = Append(source_logs, PaperLog("sync_failed", "failed"))
          ELSE /\ source' = [source EXCEPT !.status = "COMPLETED"]
               /\ source_logs' = Append(source_logs, PaperLog("sync_completed", "completed"))
    /\ paper_pc' = "returned"
    /\ UNCHANGED << paper_exc, run_value >>
    /\ UNCHANGED outside_paper

\* where _run_pipeline awaits the database or the engine: the url step
\* awaits only its commit of the missing url
Awaiting ==
    \/ paper_pc \in {"fetch", "status", "material", "run", "mark"}
    \/ paper_pc = "url" /\ source.url = None

\* an await of _run_pipeline raises: the session is closed without a commit
AwaitRaises(kind) ==
    /\ Awaiting
    /\ paper_pc' = "raised"
    /\ paper_exc' = kind
    /\ UNCHANGED << source, source_logs, run_value >>
    /\ UNCHANGED outside_paper

\* "source_obj.status = 'FAILED'; source_obj.error_log = ..." (lines 45-47)
FailureWriteKeepsStatus(src) == [src EXCEPT !.error_log = "Background processing failed"]

FailureWrite(src) ==
    [src EXCEPT !.status = "FAILED", !.error_log = "Background processing failed"]

\* the except branch writes the failure (lines 35-57); source_logs.source_id
\* is a foreign key, so the commit needs the row of the source
ExceptWrites ==
    /\ paper_pc = "raised"
    /\ IsExceptionClass(paper_exc)
    /\ source # NoSource
    /\ source' = FailureWrite(source)
    /\ source_logs' = Append(source_logs, PaperLog("error", "failed"))
    /\ paper_pc' = "handled"
    /\ UNCHANGED << paper_exc, run_value >>
    /\ UNCHANGED outside_paper

\* the write of the except branch raises and "except Exception as log_err"
\* only logs it (lines 58-59)
ExceptWriteRaises ==
    /\ paper_pc = "raised"
    /\ IsExceptionClass(paper_exc)
    /\ paper_pc' = "log_failed"
    /\ UNCHANGED << source, source_logs, paper_exc, run_value >>
    /\ UNCHANGED outside_paper

\* an exception "except Exception" does not catch leaves the coroutine
Propagates ==
    /\ paper_pc = "raised"
    /\ ~ IsExceptionClass(paper_exc)
    /\ paper_pc' = "propagated"
    /\ UNCHANGED << source, source_logs, paper_exc, run_value >>
    /\ UNCHANGED outside_paper

NextPaper ==
    \/ FetchSource
    \/ MarkProcessing
    \/ ResolveUrl
    \/ EnsureMaterial
    \/ RunEngine
    \/ MarkOutcome
    \/ \E kind \in ExceptionKinds : AwaitRaises(kind)
    \/ ExceptWrites
    \/ ExceptWriteRaises
    \/ Propagates

SpecPaper == InitPaper /\ [][NextPaper]_vars

\* ------------------------------------------------------------------------
\* Graph notions the properties are stated with
\* ------------------------------------------------------------------------

\* the (source_op, target_op) pairs of the edges whose source is an operator
Pairs(p) ==
    { << p.edges[i].source_op, p.edges[i].target_op >> :
        i \in { j \in 1..Len(p.edges) : p.edges[j].source_op # INPUT } }

RECURSIVE ReachFrom(_, _, _)
ReachFrom(p, frontier, seen) ==
    LET nxt == { pr[2] : pr \in { q \in Pairs(p) : q[1] \in frontier } } \ seen
    IN IF nxt = {} THEN seen ELSE ReachFrom(p, nxt, seen \cup nxt)

\* the operators reachable from x along one or more non-__input__ edges
Downstream(p, x) == ReachFrom(p, {x}, {})

Cyclic(p) == \E x \in OpIds(p) : x \in Downstream(p, x)

\* two OpRefs of the pipeline share an id
DuplicateIds(p) == Len(AllOpIds(p)) # Cardinality(OpIds(p))

\* index of the level that holds the op id
LevelOf(o) == CHOOSE i \in 1..Len(levels) : o \in Range(levels[i])

InRun == pc \in {"launch", "gather", "classify", "done"}

\* the classification loop has handled o's result and stored what it says
Recorded(o) ==
    /\ o \in accounted
    /\ CASE tasks[o].result.kind = "exception" ->
                /\ o \in failed_ops
                /\ OpToStep(pipeline, o) \in step_failed
         [] tasks[o].result.kind = "output" ->
                /\ HasKey(op_outputs, o)
                /\ op_outputs[o] = tasks[o].result.value
         [] OTHER -> tasks[o].result.kind = SKIPPED

\* ------------------------------------------------------------------------
\* Properties
\* ------------------------------------------------------------------------

\* C1: once the execute of operator X has raised in a run, no operator
\* reachable from X along non-__input__ edges has had its execute invoked in
\* that run, and when the run ends all of them are in the failed set; for
\* fetch -> {summary, notes} with fetch failing the failed set is exactly
\* {fetch, summary, notes} and no output is recorded for summary or notes.
C1_FailureSkipsDownstream ==
    /\ \A x \in raised : \A y \in Downstream(pipeline, x) :
            /\ invoked[y] = 0
            /\ pc = "done" => y \in failed_ops
    /\ (pipeline = PFork /\ "fetch" \in raised /\ pc = "done") =>
            /\ failed_ops = {"fetch", "summary", "notes"}
            /\ GetOrEmpty(op_outputs, "summary") = EmptyMap
            /\ GetOrEmpty(op_outputs, "notes") = EmptyMap

\* a run of fetch -> summary -> save_summary has ended after fetch raised,
\* with the operator two edges away from fetch in the failed set
C1_Witness ==
    /\ pipeline = PChain
    /\ pc = "done"
    /\ "fetch" \in raised
    /\ "save_summary" \in failed_ops
    /\ invoked["save_summary"] = 0

\* C2: whenever an operator has been launched (its coroutine created, the
\* earliest point at which a row is logged for it or its execute invoked),
\* every operator of every earlier level has finished its coroutine and has
\* had its result classified and stored (failed set, outputs, Step sets).
C2_LevelsStrictlyOrdered ==
    InRun =>
        \A o \in OpIds(pipeline) :
            Launched(o) =>
                \A q \in OpIds(pipeline) :
                    LevelOf(q) < LevelOf(o) =>
                        /\ Launched(q)
                        /\ tasks[q].pc = "done"
                        /\ Recorded(q)

\* an operator of level 1 is executing after an operator of level 0 failed
\* and another one of level 0 succeeded
C2_Witness ==
    /\ pipeline = PSplit
    /\ pc = "gather"
    /\ level_idx = 2
    /\ "save_flashcards" \in failed_ops
    /\ Launched("study_quiz")
    /\ tasks["study_quiz"].pc = "executing"

\* the levels are a partition of the op ids
IsPartition(lv, ids) ==
    /\ SumLen(lv) = Cardinality(ids)
    /\ \A o \in ids : \E i \in 1..Len(lv) :
            /\ o \in Range(lv[i])
            /\ \A j \in 1..Len(lv) : o \in Range(lv[j]) => j = i
    /\ \A i \in 1..Len(lv) : Range(lv[i]) \subseteq ids

\* C3: for an acyclic pipeline whose edges name declared op ids,
\* _topological_levels returns levels (it does not raise) that partition the
\* op ids, and each operator's level index is strictly greater than that of
\* every operator with an edge into it.
C3_LevelsPartitionAndOrder ==
    (pc \in {"levels", "raised"} /\ ~ Cyclic(pipeline)) =>
        /\ pc = "levels"
        /\ IsPartition(levels, OpIds(pipeline))
        /\ \A pr \in Pairs(pipeline) : LevelOf(pr[1]) < LevelOf(pr[2])

\* levels were returned for an acyclic graph with a chain of three operators
C3_Witness ==
    /\ pc = "levels"
    /\ ~ Cyclic(pipeline)
    /\ Len(levels) = 3
    /\ Cardinality(Pairs(pipeline)) >= 3

\* C4: for a pipeline whose operator graph has a cycle, run never gets past
\* _topological_levels: it raises, no level list is used, no execute is invoked
\* and no row is written to the log.
C4_CycleRejected ==
    Cyclic(pipeline) =>
        /\ pc \in {"idle", "raised"}
        /\ levels = << >>
        /\ \A o \in OpIds(pipeline) : invoked[o] = 0
        /\ log = EmptyLog

\* run has raised for fetch -> A -> B -> A
C4_Witness ==
    /\ pipeline = PTail
    /\ pc = "raised"
    /\ run >= 1

\* C5: in a run that follows a run which returned with an empty failed set,
\* no execute is invoked, the failed set stays empty, and the run returns an
\* outputs map that holds an empty map for every op id of the pipeline.
C5_Idempotent ==
    (prev_clean /\ InRun) =>
        /\ \A o \in OpIds(pipeline) : invoked[o] = 0
        /\ failed_ops = {}
        /\ pc = "done" =>
                \A o \in OpIds(pipeline) :
                    HasKey(op_outputs, o) /\ op_outputs[o] = EmptyMap

\* the second run has returned after a first run without failures
C5_Witness ==
    /\ prev_clean
    /\ pc = "done"
    /\ run = 2
    /\ pipeline = PSplit
    /\ returned = OpIds(pipeline) \ {"study_quiz"}

\* the log at the start of the run holds a step-completed row for the Step
StepDoneAtStart(step_key) == step_key \in steps_at_start

\* the log at the start of the run holds no completed row for the Step or
\* for any of its operators
StepOpenAtStart(step_key) ==
    /\ step_key \notin steps_at_start
    /\ StepOpIds(pipeline, step_key) \cap ops_at_start = {}

\* C6: if at the start of a run the log holds a step-completed row for Step A
\* and no completed row for Step B or its operators, then no operator of A is
\* invoked in the run, and when the run has returned every operator of B none
\* of whose upstream operators failed has been invoked.
C6_Resumption ==
    InRun =>
        \A A \in StepKeys(pipeline) : \A B \in StepKeys(pipeline) :
            (StepDoneAtStart(A) /\ StepOpenAtStart(B)) =>
                /\ \A o \in StepOpIds(pipeline, A) : invoked[o] = 0
                /\ pc = "done" =>
                        \A o \in StepOpIds(pipeline, B) :
                            GetUpstreamOps(o, pipeline.edges) \cap failed_ops = {}
                                => invoked[o] = 1

\* C7: the operator-level smart-skip fires for an op id only if the execute
\* of that operator usage has returned successfully (in an earlier run, since
\* a skipped operator is not executed in this one).
C7_SkipOnlyCompletedWork ==
    \A o \in OpIds(pipeline) :
        (Launched(o) /\ tasks[o].opskip) => o \in returned

\* C8: an operator whose op id has a completed row in the log when a run
\* starts is never invoked in that run and never enters the failed set (so no
\* dependent is skipped because of it); when its coroutine runs it returns the
\* empty map without calling execute, and a lookup of its outputs yields the
\* empty map.
C8_CompletedOpNotReinvoked ==
    InRun =>
        \A o \in OpIds(pipeline) :
            o \in ops_at_start =>
                /\ invoked[o] = 0
                /\ o \notin failed_ops
                /\ GetOrEmpty(op_outputs, o) = EmptyMap
                /\ (Launched(o) /\ tasks[o].kind = "run" /\ tasks[o].pc = "done") =>
                        /\ tasks[o].opskip
                        /\ tasks[o].result = Result("output", EmptyMap)
                /\ (Launched(o) /\ tasks[o].kind = "run" /\ o \in accounted) =>
                        /\ HasKey(op_outputs, o)
                        /\ op_outputs[o] = EmptyMap

\* summary was skipped at operator level in a run in which its Step had no
\* step-completed row, and its dependent save_summary was launched
C8_Witness ==
    /\ pipeline = PChain
    /\ "summary" \in ops_at_start
    /\ "summarize" \notin steps_at_start
    /\ "summary" \in accounted
    /\ tasks["summary"].opskip
    /\ Launched("save_summary")
    /\ tasks["save_summary"].kind = "run"

\* C9: an exception raised by an execute never makes run raise: the operator
\* ends in the failed set with a failed row in the log, every level is still
\* processed, and run raises only before anything was invoked, for a
\* pipeline that _topological_levels rejects (a cyclic graph, or an op id
\* used twice).
C9_ExecuteErrorsContained ==
    /\ pc = "raised" =>
            /\ raised = {}
            /\ \A o \in OpIds(pipeline) : invoked[o] = 0
            /\ Cyclic(pipeline) \/ DuplicateIds(pipeline)
    /\ \A x \in raised :
            /\ InRun
            /\ x \in accounted =>
                    /\ x \in failed_ops
                    /\ \E row \in Rows(log) :
                            /\ row.lens_key = x
                            /\ row.event_type = "operator_failed"
                            /\ row.status = "failed"
            /\ pc = "done" => \A o \in OpIds(pipeline) : o \in accounted

\* run has returned although fetch raised in level 0
C9_Witness ==
    /\ pc = "done"
    /\ "fetch" \in raised
    /\ "fetch" \in failed_ops
    /\ pipeline = PFork

\* the operators of the level that holds x for which a coroutine running
\* _run_op was created
LaunchedSiblings(x) ==
    { o \in Range(levels[LevelOf(x)]) \ {x} : Launched(o) /\ tasks[o].kind = "run" }

\* C10: the results of a level are classified only when every coroutine of
\* the level has finished, and once the level of a failed operator has been
\* classified every other operator launched in that level has finished with
\* its own output or failure stored.
C10_SiblingsNotCancelled ==
    /\ pc = "classify" =>
            \A i \in 1..Len(level_op_ids) : tasks[level_op_ids[i]].pc = "done"
    /\ InRun =>
            \A x \in raised :
                (pc = "done" \/ LevelOf(x) < level_idx) =>
                    \A o \in LaunchedSiblings(x) :
                        /\ tasks[o].pc = "done"
                        /\ tasks[o].result.kind \in {"output", "exception"}
                        /\ Recorded(o)

\* summary raised and its sibling notes still returned its output, which
\* the run stored
C10_Witness ==
    /\ pipeline = PFork
    /\ pc = "done"
    /\ "summary" \in raised
    /\ invoked["notes"] = 1
    /\ tasks["notes"].result.kind = "output"
    /\ HasKey(op_outputs, "notes")
    /\ op_outputs["notes"] = OutputOf(OpMap(pipeline, "notes"))

\* C11: when run returns, the value it returns is the pair (op_outputs,
\* failed_ops), and the caller's unpacking of it into two names succeeds and
\* binds the outputs map and the failed set.
C11_RunReturnsPair ==
    pc = "done" =>
        /\ RunReturn.type = "tuple"
        /\ Unpack2(RunReturn).err = None
        /\ Unpack2(RunReturn).op_outputs = op_outputs
        /\ Unpack2(RunReturn).failed_ops = failed_ops

\* the operators that failed or are reachable from one that failed
FailedOrDownstream ==
    failed_ops \cup UNION { Downstream(pipeline, x) : x \in failed_ops }

\* C12: when the first run for a source (empty log at its start) has returned
\* with some operator failed, every operator that neither failed nor is
\* reachable from a failed operator has had its execute invoked exactly once.
C12_OnlyDownstreamSkipped ==
    (run = 1 /\ pc = "done" /\ failed_ops # {}) =>
        \A o \in OpIds(pipeline) \ FailedOrDownstream : invoked[o] = 1

\* C13: while a run goes on, a Step that is in the failed-step set is not
\* added to the completed-step set and no step_completed event is logged for
\* it, even when its last operator then succeeds.
C13_StepFailureSticky ==
    [][ \A k \in StepKeys(pipeline) :
            (k \in step_failed /\ run' = run /\ pc' # "idle") =>
                /\ k \in step_completed' => k \in step_completed
                /\ step_events'[k].step_completed = step_events[k].step_completed
      ]_vars

\* reading_notes raised, which failed Step study, and study_quiz, listed last
\* in that Step, returned its output and was classified afterwards
C13_Witness ==
    /\ pipeline = PPair
    /\ pc = "done"
    /\ "reading_notes" \in raised
    /\ "study" \in step_failed
    /\ invoked["study_quiz"] = 1
    /\ tasks["study_quiz"].result.kind = "output"
    /\ "study_quiz" \in accounted
    /\ "study" \notin step_completed
    /\ step_events["study"].step_completed = 0

\* the operator was skipped because an upstream operator is in the failed set
SkippedByPropagation(o) ==
    Launched(o) /\ tasks[o].kind = "skip" /\ o \in failed_ops

\* C14: an operator skipped because of a failed upstream has no execute call
\* (and so no operator_started row) in the run and its Step is in the
\* failed-step set from the step that skipped it, which happens while no
\* operator of that level has been invoked; _log_step_event is called with
\* step_failed at most once per Step per run.
C14_PropagationSkip ==
    /\ \A o \in OpIds(pipeline) :
            SkippedByPropagation(o) =>
                /\ invoked[o] = 0
                /\ tasks[o].pc = "done"
                /\ tasks[o].result.kind = SKIPPED
                /\ OpToStep(pipeline, o) \in step_failed
    /\ pc = "launch" =>
            \A o \in Range(level_op_ids) : invoked[o] = 0
    /\ \A k \in StepKeys(pipeline) : step_events[k].step_failed <= 1

\* fetch raised and both operators of Step summarize were skipped by
\* propagation, with one step_failed event for the Step
C14_Witness ==
    /\ pipeline = PChain
    /\ pc = "done"
    /\ "fetch" \in raised
    /\ SkippedByPropagation("summary")
    /\ SkippedByPropagation("save_summary")
    /\ step_events["summarize"].step_failed = 1

\* the four ways a run disposes of an operator
Succeeded(o) ==
    /\ o \notin failed_ops
    /\ invoked[o] = 1
    /\ HasKey(op_outputs, o)
    /\ op_outputs[o] = OutputOf(OpMap(pipeline, o))

Failed(o) ==
    /\ o \in failed_ops
    /\ Launched(o)
    /\ tasks[o].kind = "run"
    /\ tasks[o].result.kind = "exception"

SmartSkipped(o) ==
    /\ o \notin failed_ops
    /\ invoked[o] = 0
    /\ Launched(o)
    /\ tasks[o].kind = "skip" \/ tasks[o].opskip

Dispositions(o) ==
    { d \in {"succeeded", "failed", "skipped_by_failure", "smart_skipped"} :
        \/ d = "succeeded" /\ Succeeded(o)
        \/ d = "failed" /\ Failed(o)
        \/ d = "skipped_by_failure" /\ SkippedByPropagation(o)
        \/ d = "smart_skipped" /\ SmartSkipped(o) }

\* C15: in a run the execute of an operator is invoked at most once; an
\* operator in the failed set has a finished coroutine (it is not invoked
\* afterwards) and no execute output recorded; when the run has returned every
\* operator is in exactly one of the four dispositions.
C15_OneDisposition ==
    /\ \A o \in OpIds(pipeline) :
            /\ invoked[o] <= 1
            /\ o \in failed_ops =>
                    /\ Launched(o)
                    /\ tasks[o].pc = "done"
                    /\ GetOrEmpty(op_outputs, o) = EmptyMap
    /\ pc = "done" =>
            \A o \in OpIds(pipeline) : Cardinality(Dispositions(o)) = 1

\* a second run of fetch -> summary -> save_summary has returned with fetch
\* smart-skipped, summary failed and save_summary skipped by propagation
C15_Witness ==
    /\ pipeline = PChain
    /\ pc = "done"
    /\ run = 2
    /\ SmartSkipped("fetch")
    /\ Failed("summary")
    /\ "summary" \in raised
    /\ SkippedByPropagation("save_summary")

\* C16: when the coroutine of an operator whose operator_key is not
\* registered has raised the lookup error, run raises it: the operator is not
\* put in the failed set and the run does not go on to classify the level.
C16_UnknownKeyAborts ==
    \A o \in OpIds(pipeline) :
        ( /\ Unregistered(OpMap(pipeline, o))
          /\ Launched(o)
          /\ tasks[o].kind = "run"
          /\ tasks[o].result.kind = "exception" ) =>
            /\ pc \in {"gather", "raised"}
            /\ o \notin failed_ops

\* C17: the in-degree _topological_levels computes for an operator is the
\* number of distinct operators with an edge into it (edges between the same
\* pair count once, edges from __input__ count zero), and for the edges
\* A -> B, A -> B, __input__ -> C it returns the levels [A, C] then [B].
C17_InDegreeCountsPairsOnce ==
    /\ \A o \in OpIds(pipeline) :
            InDegree(pipeline)[o] = Cardinality({ pr \in Pairs(pipeline) : pr[2] = o })
    /\ pipeline = PDupInput =>
            /\ pc # "raised"
            /\ pc = "levels" => levels = << << "A", "C" >>, << "B" >> >>

\* the levels were returned for the edges A -> B, A -> B, __input__ -> C
C17_Witness ==
    /\ pipeline = PDupInput
    /\ pc = "levels"
    /\ levels = << << "A", "C" >>, << "B" >> >>
    /\ InDegree(pipeline)["B"] = 1
    /\ InDegree(pipeline)["C"] = 0

\* execute has been called for the operator in this run
ExecuteCalled(o) == Launched(o) /\ tasks[o].kind = "run" /\ invoked[o] = 1

\* C18: the inputs execute is called with hold exactly the keys of the
\* OpRef's config_overrides and of the edge-gathered inputs; a key of the
\* edge-gathered inputs has the edge's value, any other key its configured
\* value; the OpRef's config_overrides stay as declared.
C18_ConfigOverridesLowestPrecedence ==
    /\ \A o \in OpIds(pipeline) :
            ExecuteCalled(o) =>
                LET cfg == OpMap(pipeline, o).config_overrides
                    inp == tasks[o].inputs
                    got == tasks[o].merged_inputs
                IN /\ DOMAIN got = (DOMAIN cfg) \cup (DOMAIN inp)
                   /\ \A k \in DOMAIN inp : got[k] = inp[k]
                   /\ \A k \in (DOMAIN cfg) \ (DOMAIN inp) : got[k] = cfg[k]
    /\ pipeline.name = "export" =>
            OpMap(pipeline, "export").config_overrides =
                [text |-> "configured", card_type |-> "flashcard"]

\* export was executed with the text its edge from fetch supplied and with
\* the configured card_type
C18_Witness ==
    /\ pipeline = PExport
    /\ ExecuteCalled("export")
    /\ tasks["export"].inputs = [text |-> "fetch"]
    /\ tasks["export"].merged_inputs = [text |-> "fetch", card_type |-> "flashcard"]

\* the execute of the operator returned an output map in this run
ReturnedThisRun(o) == ExecuteCalled(o) /\ tasks[o].result.kind = "output"

\* C19: from the classification of its result on, and in particular when the
\* run has returned, the outputs map holds under the op id of every operator
\* whose execute returned in this run exactly the map it returned.
C19_SucceededOutputsKept ==
    \A o \in OpIds(pipeline) :
        ReturnedThisRun(o) =>
            /\ tasks[o].result.value = OutputOf(OpMap(pipeline, o))
            /\ pc = "done" => o \in accounted
            /\ o \in accounted =>
                    /\ HasKey(op_outputs, o)
                    /\ op_outputs[o] = tasks[o].result.value

\* the run has returned with the outputs of fetch and study_quiz stored
\* although reading_notes, in the Step and level of study_quiz, failed
C19_Witness ==
    /\ pipeline = PPair
    /\ pc = "done"
    /\ "reading_notes" \in failed_ops
    /\ ReturnedThisRun("study_quiz")
    /\ op_outputs["study_quiz"] = [flashcards |-> "study_quiz"]
    /\ op_outputs["fetch"] = [text |-> "fetch"]

\* C20: as soon as an operator's execute has returned or raised, before its
\* level is classified, the log holds its completed or failed row; the
\* completed row stays in the log whatever happens afterwards (a sibling
\* failing, the process dying), and in every later run the operator is not
\* invoked again.
C20_OperatorEventsDurable ==
    /\ \A o \in OpIds(pipeline) :
            ReturnedThisRun(o) =>
                /\ o \notin ops_at_start
                /\ \E row \in Rows(log) :
                        /\ row.lens_key = o
                        /\ row.event_type = "operator_completed"
                        /\ row.status = "completed"
    /\ \A o \in raised :
            \E row \in Rows(log) :
                /\ row.lens_key = o
                /\ row.event_type = "operator_failed"
                /\ row.status = "failed"
    /\ \A o \in returned :
            /\ HasCompletedRow(log, o)
            /\ (InRun /\ ~ ReturnedThisRun(o)) =>
                    /\ o \in ops_at_start
                    /\ invoked[o] = 0

\* summary returned in a run that died while its sibling notes was still
\* executing (notes' operator row was left running); in the next run summary
\* is skipped at operator level and notes is executed again
C20_Witness ==
    /\ pipeline = PFork
    /\ run = 2
    /\ "summary" \in ops_at_start
    /\ "summarize" \notin steps_at_start
    /\ "notes" \notin ops_at_start
    /\ Cardinality({ i \in 1..Len(log.running) :
                        log.running[i].lens_key = "notes" }) = 2
    /\ Launched("summary")
    /\ tasks["summary"].opskip
    /\ invoked["summary"] = 0
    /\ invoked["notes"] = 1
    /\ \A o \in OpIds(pipeline) : o \notin raised

\* C21: an operator whose execute is running holds, in its own copy of the
\* RunContext, a session that is not the caller's context.db and is not the
\* session of any other operator whose execute is running; the other fields of
\* the copy are the caller's.
C21_OwnSession ==
    \A o \in DOMAIN tasks :
        tasks[o].pc = "executing" =>
            /\ tasks[o].local_context.db \notin {NoContext.db, CallerContext.db}
            /\ tasks[o].local_context.source_id = CallerContext.source_id
            /\ \A q \in (DOMAIN tasks) \ {o} :
                    tasks[q].pc = "executing" =>
                        tasks[q].local_context.db # tasks[o].local_context.db

\* summary and notes are executing at the same time, each with its session
C21_Witness ==
    /\ pipeline = PFork
    /\ pc = "gather"
    /\ Launched("summary")
    /\ Launched("notes")
    /\ tasks["summary"].pc = "executing"
    /\ tasks["notes"].pc = "executing"
    /\ tasks["summary"].local_context.db = 3
    /\ tasks["notes"].local_context.db = 2

\* the keys of the input ports declared required for which inputs has no key
MissingRequired ==
    { operator.input_ports[i].key :
        i \in { j \in 1..Len(operator.input_ports) :
                    /\ operator.input_ports[j].required
                    /\ ~ HasKey(exec_inputs, operator.input_ports[j].key) } }

\* C22: once execute has got past its first statement, validate_inputs has
\* raised if and only if some required port has no key in inputs, and the
\* error names such a port; when a required port is missing neither the
\* handler nor the LLM call is ever made, and when none is missing (whatever
\* optional ports are absent and extra keys present) execute goes on to them.
C22_ValidateInputs ==
    /\ exec_pc \notin {"idle", "start"} =>
            /\ exec_error # None <=> MissingRequired # {}
            /\ exec_error # None => exec_error \in MissingRequired
    /\ MissingRequired # {} =>
            /\ exec_called = {}
            /\ exec_pc \in {"start", "raised"}
    /\ exec_pc \in {"body", "returned"} =>
            /\ MissingRequired = {}
            /\ exec_called = {IF operator.kind = "tool" THEN "handler" ELSE "llm_call"}

\* an LLM operator with an optional port and a required one was called with
\* neither, and with a key that is no port: the error names the required port
C22_Witness ==
    /\ exec_pc = "raised"
    /\ operator = OperatorInstance("llm", << Port("images", FALSE), Port("text", TRUE) >>)
    /\ DOMAIN exec_inputs = {"extra"}
    /\ exec_error = "text"
    /\ exec_called = {}

\* the positions in the history of registrations of the classes with that key
RegistrationsOf(key) == { i \in 1..Len(registered) : registered[i].key = key }

\* C23: a call of get_operator leaves the registry as it was; for a key no
\* class was ever registered under it raises KeyError and creates no
\* instance; for any other key it returns an instance that no earlier call
\* returned, of the class registered last under that key.
C23_GetOperator ==
    [][ lookup'.call = lookup.call + 1 =>
            LET hits == RegistrationsOf(lookup'.key)
            IN /\ registry' = registry
               /\ IF hits = {}
                  THEN /\ lookup'.err = "KeyError"
                       /\ instances' = instances
                  ELSE /\ lookup'.err = None
                       /\ lookup'.instance \notin 0..instances
                       /\ lookup'.instance \in 1..instances'
                       /\ lookup'.cls =
                            registered[CHOOSE i \in hits : \A j \in hits : j <= i].name
      ]_vars

\* after two classes were registered under "summary", the second call of
\* get_operator("summary") returned a second instance, of the later class
C23_Witness ==
    /\ registered = << Class("SummaryOperator", "summary"),
                       Class("BriefSummaryOperator", "summary") >>
    /\ lookup.call = 2
    /\ lookup.key = "summary"
    /\ lookup.cls = "BriefSummaryOperator"
    /\ lookup.instance = 2

\* C24: while a run goes on, a Step for which a step_completed event was
\* logged in the run (lines 236-242) has every operator of its operators list
\* either returned by its execute in this run or with a completed row in the
\* log from before the run.
C24_StepCompletedMeansAllOps ==
    InRun =>
        \A k \in StepKeys(pipeline) :
            step_events[k].step_completed > 0 =>
                /\ k \in step_completed
                /\ \A o \in StepOpIds(pipeline, k) :
                        ReturnedThisRun(o) \/ o \in ops_at_start

\* C25: while a run goes on, no Step is both in the completed-step set and
\* in the failed-step set.
C25_CompletedNeverFailed ==
    InRun => step_completed \cap step_failed = {}

\* the edges into the operator
EdgesInto(o) ==
    { pipeline.edges[i] : i \in { j \in 1..Len(pipeline.edges) :
                                    pipeline.edges[j].target_op = o } }

\* the value the edge carries comes from the run's initial inputs or from an
\* operator whose execute returned in this run
FromInputOrThisRun(e, value) ==
    \/ /\ e.source_op = INPUT
       /\ HasKey(InitialInputs, e.source_port)
       /\ value = InitialInputs[e.source_port]
    \/ /\ e.source_op \in OpIds(pipeline)
       /\ ReturnedThisRun(e.source_op)
       /\ HasKey(OutputOf(OpMap(pipeline, e.source_op)), e.source_port)
       /\ value = OutputOf(OpMap(pipeline, e.source_op))[e.source_port]

\* C26: an operator whose execute is called has, on a port fed only by
\* smart-skipped operators, no value; every value it gathered from its edges
\* comes from __input__ or from an operator executed in this run, and every
\* other key it is called with is one of its config_overrides.
C26_NoInputFromSkipped ==
    \A o \in OpIds(pipeline) :
        ExecuteCalled(o) =>
            LET inp == tasks[o].inputs
                cfg == OpMap(pipeline, o).config_overrides
            IN /\ \A e \in EdgesInto(o) :
                    ( /\ e.source_op # INPUT
                      /\ \A e2 \in EdgesInto(o) :
                            e2.target_port = e.target_port =>
                                e2.source_op # INPUT /\ SmartSkipped(e2.source_op) )
                        => ~ HasKey(inp, e.target_port)
               /\ \A k \in DOMAIN inp :
                    \E e \in EdgesInto(o) :
                        e.target_port = k /\ FromInputOrThisRun(e, inp[k])
               /\ \A k \in (DOMAIN tasks[o].merged_inputs) \ (DOMAIN inp) :
                    HasKey(cfg, k) /\ tasks[o].merged_inputs[k] = cfg[k]

\* in the second run summary is skipped at operator level and save_summary is
\* executed with no inputs at all, though two edges from summary feed it
C26_Witness ==
    /\ pipeline = PChain
    /\ run = 2
    /\ SmartSkipped("summary")
    /\ tasks["summary"].opskip
    /\ ExecuteCalled("save_summary")
    /\ tasks["save_summary"].merged_inputs = EmptyMap

\* C27: in any step of a run, a step_completed event is logged for a Step
\* (and the Step enters the completed-step set with it) exactly when that step
\* classifies the result of the operator listed last in the Step, the result
\* is an output map (of an execute or of an operator-level smart-skip) and the
\* Step is not in the failed-step set; apart from that a Step enters the set
\* only by the Step-level smart-skip.
C27_LastOperatorCompletesStep ==
    [][ \A k \in StepKeys(pipeline) :
            LET marked == step_events'[k].step_completed = step_events[k].step_completed + 1
                o == LastOpId(pipeline, k)
            IN /\ marked <=>
                    /\ o \in accounted' \ accounted
                    /\ tasks[o].result.kind = "output"
                    /\ k \notin step_failed
               /\ marked => k \in step_completed'
               /\ (k \in step_completed' \ step_completed) =>
                    marked \/ (k \in steps_at_start /\ pc = "launch")
      ]_vars

\* in a second run summary and save_summary were both skipped at operator
\* level and the result of save_summary, listed last, completed the Step
C27_Witness ==
    /\ pipeline = PChain
    /\ run = 2
    /\ "summarize" \notin steps_at_start
    /\ "save_summary" \in accounted
    /\ tasks["save_summary"].opskip
    /\ "summary" \in accounted
    /\ "summarize" \in step_completed
    /\ step_events["summarize"].step_completed = 1

\* C28: when run has returned, the source ends COMPLETED with a
\* sync_completed row if the failed set is empty, and FAILED with a sync_failed
\* row and the failed op ids listed in error_log if it is not.
C28_StatusFromFailedSet ==
    pc = "done" =>
        LET out == SourceOutcome(RunReturn)
        IN /\ failed_ops = {} =>
                /\ out.status = "COMPLETED"
                /\ out.event_type = "sync_completed"
           /\ failed_ops # {} =>
                /\ out.status = "FAILED"
                /\ out.event_type = "sync_failed"
                /\ out.error_log.of = "op_ids"
                /\ out.error_log.value = failed_ops

\* the positions of the edges that bind the port of the operator: the edge
\* targets it and its source has a recorded output that holds source_port
BindingEdges(o, port) ==
    { i \in 1..Len(pipeline.edges) :
        LET e == pipeline.edges[i]
        IN /\ e.target_op = o
           /\ e.target_port = port
           /\ HasKey(op_outputs, e.source_op)
           /\ HasKey(op_outputs[e.source_op], e.source_port) }

\* C29: the inputs gathered for an operator hold a port exactly when some
\* edge targeting that port of the operator has a source (an operator, or
\* __input__ read from the initial inputs) whose recorded output holds the
\* edge's source_port, and the value is that of the last such edge of the
\* edge list; any other port is absent.
C29_GatherInputs ==
    pc = "gathered" =>
        \A o \in DOMAIN tasks :
            LET inp == tasks[o].inputs
            IN \A port \in {"in", "in2"} \cup DOMAIN inp :
                LET hits == BindingEdges(o, port)
                    last == CHOOSE i \in hits : \A j \in hits : j <= i
                    e == pipeline.edges[last]
                IN IF hits = {} THEN ~ HasKey(inp, port)
                   ELSE /\ HasKey(inp, port)
                        /\ inp[port] = op_outputs[e.source_op][e.source_port]
                        /\ e.source_op = INPUT => inp[port] = InitialInputs[e.source_port]

\* three edges target port "in" of x: from a, from b, and last from a port
\* of __input__ that is not there; b's value is bound and "in2" is absent
C29_Witness ==
    /\ pc = "gathered"
    /\ pipeline.edges = << Edge("a", "text", "x", "in"),
                           Edge("b", "text", "x", "in"),
                           Edge(INPUT, "pdf", "x", "in") >>
    /\ HasKey(op_outputs, "a")
    /\ HasKey(op_outputs, "b")
    /\ HasKey(op_outputs["a"], "text")
    /\ HasKey(tasks, "x")
    /\ tasks["x"].inputs = [in |-> "b.text"]

\* the tasks inside the "async with _concurrency_limit" block
InsideSection == { t \in BgTasks : bg[t] \in {"inside", "returned", "excepted"} }

\* the tasks whose future holds a slot they have not yet resumed with
HandedSlot ==
    { semaphore.waiters[i].task :
        i \in { j \in 1..Len(semaphore.waiters) : semaphore.waiters[j].done } }

\* C30: at most 3 tasks are inside the section at any time; a task enters
\* without a free slot never (the free slots, the tasks inside and the slots
\* handed to woken waiters always add up to 3, so a slot is given back when a
\* task leaves after its pipeline run returned or raised); and every task
\* that waits eventually enters the section.
C30_ConcurrencyLimit ==
    /\ [](Cardinality(InsideSection) <= 3)
    /\ [](/\ semaphore.value >= 0
          /\ semaphore.value + Cardinality(InsideSection) + Cardinality(HandedSlot) = 3)
    /\ \A t \in BgTasks : (bg[t] = "waiting") ~> (bg[t] = "inside")

\* three tasks are inside the section, another one waits, and none has left
C30_Witness ==
    /\ Cardinality(InsideSection) = 3
    /\ \E t \in BgTasks : bg[t] = "excepted"
    /\ \E t \in BgTasks : bg[t] = "waiting"
    /\ semaphore.value = 0
    /\ Len(semaphore.waiters) = 1

\* ------------------------------------------------------------------------
\* C31
\* ------------------------------------------------------------------------

\* the process_paper_background task has ended
PaperEnded == paper_pc \in {"returned", "handled", "log_failed", "propagated"}

\* number of failed error events paper_tasks.py has written
ErrorEvents ==
    Cardinality({ i \in DOMAIN source_logs : source_logs[i] = PaperLog("error", "failed") })

C32_DuplicateIdsRejected ==
    DuplicateIds(pipeline) =>
        /\ \A r \in TopologicalLevels(pipeline) : r.err = "ValueError"
        /\ pc \in {"idle", "raised"}
        /\ levels = << >>
        /\ tasks = EmptyMap
        /\ \A o \in OpIds(pipeline) : invoked[o] = 0
        /\ log = EmptyLog

\* run has raised for a pipeline with a repeated id and no cycle
C32_Witness ==
    /\ DuplicateIds(pipeline)
    /\ ~ Cyclic(pipeline)
    /\ pipeline = PDupAcross
    /\ pc = "raised"
    /\ run >= 1

\* ------------------------------------------------------------------------
\* C33
\* ------------------------------------------------------------------------

\* the run in progress began with a step-completed row for every Step
AllStepsDoneAtStart ==
    /\ run >= 1
    /\ steps_at_start = StepKeys(pipeline)

\* C33: from its first statement on, a run that finds a step-completed row
\* for every Step of the pipeline changes nothing in the log (no row added,
\* none updated), invokes no execute and fails no operator.
C33_SmartSkippedRunReadsOnly ==
    [][AllStepsDoneAtStart' =>
            /\ log' = log
            /\ \A o \in OpIds(pipeline) : invoked'[o] = 0
            /\ failed_ops' = {}
            /\ \A k \in StepKeys(pipeline) :
                    /\ step_events'[k].step_started = 0
                    /\ step_events'[k].step_completed = 0
                    /\ step_events'[k].step_failed = 0]_vars

\* such a run has returned for the split Step, every Step skipped at the
\* Step level
C33_Witness ==
    /\ AllStepsDoneAtStart
    /\ pipeline = PSplit
    /\ pc = "done"
    /\ step_completed = StepKeys(pipeline)
    /\ \A o \in OpIds(pipeline) : o \in DOMAIN op_outputs /\ op_outputs[o] = EmptyMap

\* ------------------------------------------------------------------------
\* C34
\* ------------------------------------------------------------------------

\* run is between its first level and its return
RunInProgress == pc \in {"launch", "gather", "classify"}

\* C34: a run that has its levels returns: every run in progress reaches
\* "return op_outputs", given that the calls of execute end. On the way the
\* level index only grows, the loop over the operators of a level starts
\* once per level, no operator's execute is called twice, and no op id is in
\* the levels twice.
C34_RunTerminates ==
    /\ RunInProgress ~> (pc = "done")
    /\ [](\A o \in OpIds(pipeline) : invoked[o] <= 1)
    /\ [](RunInProgress => level_idx \in 1..Len(levels))
    /\ [](SumLen(levels) = Cardinality(UNION { Range(levels[i]) : i \in 1..Len(levels) }))
    /\ [][RunInProgress /\ RunInProgress' =>
            /\ level_idx' >= level_idx
            /\ (pc # "launch" /\ pc' = "launch") => level_idx' > level_idx]_vars

\* a run over three levels has returned, with a failure on its way
C34_Witness ==
    /\ pc = "done"
    /\ Len(levels) = 3
    /\ level_idx = 3
    /\ failed_ops # {}
    /\ \E o \in OpIds(pipeline) : invoked[o] = 1

\* ------------------------------------------------------------------------
\* C35
\* ------------------------------------------------------------------------

\* the operators of the Step that the launch loop has met in this run
Encountered(k) == { o \in StepOpIds(pipeline, k) : Launched(o) }

\* C35: in a run _log_step_event is called with step_started at most once per
\* Step, and it has been called once the coroutine of any operator of the
\* Step exists; it is not called for a Step that had its step-completed row
\* when the run began (the Step is smart-skipped), nor for a Step whose
\* operators met so far were all skipped by failure propagation; and
\* _is_step_completed is called at most once per Step.
C35_StepStartedOnce ==
    \A k \in StepKeys(pipeline) :
        /\ step_events[k].step_started <= 1
        /\ step_events[k].is_step_completed <= 1
        /\ \A o \in Encountered(k) :
                (tasks[o].kind = "run" \/ invoked[o] > 0) => step_events[k].step_started = 1
        /\ k \in steps_at_start => step_events[k].step_started = 0
        /\ (\A o \in Encountered(k) : SkippedByPropagation(o)) =>
                step_events[k].step_started = 0

\* second run of the chain: Step fetch is smart-skipped without a
\* step_started event, both operators of Step summarize have been invoked
\* after one step_started event and one look at the log
C35_Witness ==
    /\ pipeline = PChain
    /\ run = 2
    /\ pc = "done"
    /\ "fetch" \in steps_at_start
    /\ step_events["fetch"].step_started = 0
    /\ step_events["fetch"].is_step_completed = 1
    /\ step_events["summarize"].step_started = 1
    /\ step_events["summarize"].is_step_completed = 1
    /\ invoked["summary"] = 1
    /\ invoked["save_summary"] = 1

====
